---- MODULE Spec2Model ----
(***************************************************************************)
(* Model of src/dedupe_providers.py: provider de-duplication by            *)
(* normalisation, blocking, pairwise scoring, threshold classification,    *)
(* union-find clustering and canonical-id selection.                       *)
(*                                                                         *)
(* Strings are sequences of one-character strings.  Tables (DataFrames     *)
(* with the default RangeIndex) are functions over 0..n-1.  Scores and     *)
(* similarities are Python floats (IEEE 754 binary64), computed with the   *)
(* roundings of the source's operations in the source's order.             *)
(***************************************************************************)
EXTENDS Integers, Sequences, FiniteSets, TLC

(***************************************************************************)
(* Characters                                                              *)
(***************************************************************************)
LowerLetters ==
    << "a","b","c","d","e","f","g","h","i","j","k","l","m",
       "n","o","p","q","r","s","t","u","v","w","x","y","z" >>

UpperLetters ==
    << "A","B","C","D","E","F","G","H","I","J","K","L","M",
       "N","O","P","Q","R","S","T","U","V","W","X","Y","Z" >>

Digits == << "0","1","2","3","4","5","6","7","8","9" >>

\* The characters of the model in code-point order (str comparison order).
Alphabet ==
    << " ", "#", ",", "-", "." >> \o Digits \o UpperLetters \o << "_" >> \o LowerLetters

Range(f) == { f[x] : x \in DOMAIN f }

Ord(c) == CHOOSE i \in 1..Len(Alphabet) : Alphabet[i] = c

IsDigit(c) == c \in Range(Digits)

IsLower(c) == c \in Range(LowerLetters)

IsUpper(c) == c \in Range(UpperLetters)

\* regex \s
IsSpace(c) == c = " "

\* regex \w (str pattern): letters, digits and the underscore
IsWord(c) == IsLower(c) \/ IsUpper(c) \/ IsDigit(c) \/ c = "_"

LetterIndex(c, letters) == CHOOSE i \in 1..Len(letters) : letters[i] = c

LowerChar(c) == IF IsUpper(c) THEN LowerLetters[LetterIndex(c, UpperLetters)] ELSE c

UpperChar(c) == IF IsLower(c) THEN UpperLetters[LetterIndex(c, LowerLetters)] ELSE c

(***************************************************************************)
(* str methods and the regular-expression substitutions the code uses      *)
(***************************************************************************)
lower(s) == [i \in 1..Len(s) |-> LowerChar(s[i])]

upper(s) == [i \in 1..Len(s) |-> UpperChar(s[i])]

RECURSIVE lstrip(_)
lstrip(s) == IF s # <<>> /\ IsSpace(Head(s)) THEN lstrip(Tail(s)) ELSE s

RECURSIVE rstrip(_)
rstrip(s) ==
    IF s # <<>> /\ IsSpace(s[Len(s)]) THEN rstrip(SubSeq(s, 1, Len(s) - 1)) ELSE s

strip(s) == rstrip(lstrip(s))

\* re.sub(r'[\.,]', ' ', s)
SubDotComma(s) == [i \in 1..Len(s) |-> IF s[i] \in {".", ","} THEN " " ELSE s[i]]

\* re.sub(r'[^a-z0-9\s]', ' ', s)
SubNonAlnum(s) ==
    [i \in 1..Len(s) |->
        IF IsLower(s[i]) \/ IsDigit(s[i]) \/ IsSpace(s[i]) THEN s[i] ELSE " "]

\* re.sub(r'\s+', ' ', s): every maximal run of whitespace becomes one space.
RECURSIVE CollapseSpace(_)
CollapseSpace(s) ==
    IF s = <<>> THEN <<>>
    ELSE IF IsSpace(Head(s))
         THEN << " " >> \o CollapseSpace(lstrip(s))
         ELSE << Head(s) >> \o CollapseSpace(Tail(s))

\* Length of the maximal run of \w characters at the start of s.
RECURSIVE WordRunLen(_)
WordRunLen(s) ==
    IF s # <<>> /\ IsWord(Head(s)) THEN 1 + WordRunLen(Tail(s)) ELSE 0

Honorifics ==
    { <<"d","r">>, <<"m","d">>, <<"d","o">>, <<"p","r","o","f">>,
      <<"m","r">>, <<"m","r","s">>, <<"m","s">>, <<"j","r">>, <<"s","r">>,
      <<"i","i">>, <<"i","i","i">> }

\* re.sub(r'\b(dr|md|do|prof|mr|mrs|ms|jr|sr|ii|iii)\b', '', s): every
\* alternative is made of \w characters, so a match is exactly a maximal run
\* of \w characters that spells one of the words.
RECURSIVE SubHonorifics(_)
SubHonorifics(s) ==
    IF s = <<>> THEN <<>>
    ELSE IF IsWord(Head(s))
         THEN LET k == WordRunLen(s)
                  w == SubSeq(s, 1, k)
              IN  (IF w \in Honorifics THEN <<>> ELSE w)
                      \o SubHonorifics(SubSeq(s, k + 1, Len(s)))
         ELSE << Head(s) >> \o SubHonorifics(Tail(s))

(***************************************************************************)
(* Helpers: normalization                                                  *)
(***************************************************************************)
normalize_name(s) ==
    LET s1 == strip(lower(s))
        s2 == SubDotComma(s1)
        s3 == SubHonorifics(s2)
        s4 == SubNonAlnum(s3)
    IN  strip(CollapseSpace(s4))

\* re.sub(r'[^0-9]', '', s)
normalize_phone(s) == SelectSeq(s, IsDigit)

\* [t for t in re.split(r'\s+', s) if t]
RECURSIVE name_tokens(_)
name_tokens(s) ==
    LET t == lstrip(s)
    IN  IF t = <<>> THEN <<>>
        ELSE LET k == CHOOSE n \in 1..Len(t) :
                        /\ \A i \in 1..n : ~IsSpace(t[i])
                        /\ (n = Len(t) \/ IsSpace(t[n + 1]))
             IN  << SubSeq(t, 1, k) >> \o name_tokens(SubSeq(t, k + 1, Len(t)))

Min(a, b) == IF a < b THEN a ELSE b

last_name_prefix(s, n) ==
    LET toks == name_tokens(s)
    IN  IF toks # <<>>
        THEN SubSeq(toks[Len(toks)], 1, Min(n, Len(toks[Len(toks)])))
        ELSE <<>>

phone_last4(s) == IF Len(s) >= 4 THEN SubSeq(s, Len(s) - 3, Len(s)) ELSE <<>>

(***************************************************************************)
(* Natural numbers of any size                                             *)
(***************************************************************************)
\* A natural number is the sequence of its digits in base Base, lowest
\* first, without a zero as highest digit; << >> is 0.  (TLC's integers are
\* 32 bits wide, a double's significand has 53.)
Base == 2 ^ 15

BaseBits == 15

RECURSIVE NatNorm(_)
NatNorm(x) ==
    IF x # <<>> /\ x[Len(x)] = 0 THEN NatNorm(SubSeq(x, 1, Len(x) - 1)) ELSE x

RECURSIVE NatOf(_)
NatOf(n) == IF n = 0 THEN <<>> ELSE << n % Base >> \o NatOf(n \div Base)

RECURSIVE NatToInt(_)
NatToInt(x) == IF x = <<>> THEN 0 ELSE Head(x) + Base * NatToInt(Tail(x))

RECURSIVE NatAddC(_, _, _)
NatAddC(x, y, c) ==
    IF x = <<>> /\ y = <<>> THEN (IF c = 0 THEN <<>> ELSE << c >>)
    ELSE LET s == (IF x = <<>> THEN 0 ELSE Head(x)) + (IF y = <<>> THEN 0 ELSE Head(y)) + c
         IN  << s % Base >> \o NatAddC(IF x = <<>> THEN <<>> ELSE Tail(x),
                                       IF y = <<>> THEN <<>> ELSE Tail(y), s \div Base)

NatAdd(x, y) == NatAddC(x, y, 0)

RECURSIVE NatSubB(_, _, _)
NatSubB(x, y, b) ==
    IF x = <<>> THEN <<>>
    ELSE LET d == Head(x) - (IF y = <<>> THEN 0 ELSE Head(y)) - b
         IN  << IF d < 0 THEN d + Base ELSE d >>
                 \o NatSubB(Tail(x), IF y = <<>> THEN <<>> ELSE Tail(y), IF d < 0 THEN 1 ELSE 0)

\* x - y for x >= y
NatSub(x, y) == NatNorm(NatSubB(x, y, 0))

RECURSIVE NatLessAt(_, _, _)
NatLessAt(x, y, i) ==
    IF i = 0 THEN FALSE
    ELSE IF x[i] # y[i] THEN x[i] < y[i]
    ELSE NatLessAt(x, y, i - 1)

NatLess(x, y) == IF Len(x) # Len(y) THEN Len(x) < Len(y) ELSE NatLessAt(x, y, Len(x))

RECURSIVE NatMulSmallC(_, _, _)
NatMulSmallC(x, k, c) ==
    IF x = <<>> THEN (IF c = 0 THEN <<>> ELSE << c >>)
    ELSE LET t == Head(x) * k + c
         IN  << t % Base >> \o NatMulSmallC(Tail(x), k, t \div Base)

\* x * k for k < Base
NatMulSmall(x, k) == IF k = 0 THEN <<>> ELSE NatMulSmallC(x, k, 0)

RECURSIVE NatMul(_, _)
NatMul(x, y) ==
    IF x = <<>> \/ y = <<>> THEN <<>>
    ELSE LET rest == NatMul(x, Tail(y))
         IN  NatAdd(NatMulSmall(x, Head(y)), IF rest = <<>> THEN <<>> ELSE << 0 >> \o rest)

\* x * 2^k
NatShl(x, k) ==
    IF x = <<>> THEN <<>>
    ELSE [ i \in 1..(k \div BaseBits) |-> 0 ] \o NatMulSmall(x, 2 ^ (k % BaseBits))

\* Long division by d <= Base, highest digit first: quotient and remainder.
RECURSIVE NatDivSmall(_, _)
NatDivSmall(x, d) ==
    IF x = <<>> THEN [q |-> <<>>, r |-> 0]
    ELSE LET hi == NatDivSmall(Tail(x), d)
             t == hi.r * Base + Head(x)
         IN  [q |-> << t \div d >> \o hi.q, r |-> t % d]

\* floor(x / 2^k)
NatShr(x, k) ==
    IF k \div BaseBits >= Len(x) THEN <<>>
    ELSE NatNorm(NatDivSmall(SubSeq(x, k \div BaseBits + 1, Len(x)), 2 ^ (k % BaseBits)).q)

RECURSIVE BitLen(_)
BitLen(n) == IF n = 0 THEN 0 ELSE 1 + BitLen(n \div 2)

\* The number of binary digits of x.
NatBits(x) == IF x = <<>> THEN 0 ELSE BaseBits * (Len(x) - 1) + BitLen(x[Len(x)])

RECURSIVE TrailingZerosInt(_)
TrailingZerosInt(n) == IF n % 2 = 1 THEN 0 ELSE 1 + TrailingZerosInt(n \div 2)

\* The number of zero binary digits at the low end of x > 0.
RECURSIVE TrailingZeros(_)
TrailingZeros(x) ==
    IF Head(x) = 0 THEN BaseBits + TrailingZeros(Tail(x)) ELSE TrailingZerosInt(Head(x))

\* x / 2^k rounded to the nearest natural number, a tie to the even one.
RoundShr(x, k) ==
    IF k = 0 THEN x
    ELSE LET q == NatShr(x, k)
             rem == NatSub(x, NatShl(q, k))
             half == NatShl(<< 1 >>, k - 1)
             up == NatLess(half, rem) \/ (rem = half /\ q # <<>> /\ Head(q) % 2 = 1)
         IN  IF up THEN NatAdd(q, << 1 >>) ELSE q

(***************************************************************************)
(* Python floats: IEEE 754 binary64, round to nearest, ties to even        *)
(***************************************************************************)
\* A float is [sign, man, exp] with the value sign * man * 2^exp: sign is
\* 1, -1 or 0, man is an odd natural number below 2^53 (<< >> for 0.0).
\* Overflow and subnormal numbers are out of the range of a score.
SignificandBits == 53

float_zero == [sign |-> 0, man |-> <<>>, exp |-> 0]

\* The float nearest to s * m * 2^e: m is rounded to 53 binary digits, then
\* the zeros at its low end go to the exponent.
RECURSIVE to_float(_, _, _)
to_float(s, m, e) ==
    IF m = <<>> \/ s = 0 THEN float_zero
    ELSE IF NatBits(m) > SignificandBits
    THEN to_float(s, RoundShr(m, NatBits(m) - SignificandBits),
                  e + NatBits(m) - SignificandBits)
    ELSE IF Head(m) % 2 = 0
    THEN to_float(s, NatShr(m, TrailingZeros(m)), e + TrailingZeros(m))
    ELSE [sign |-> s, man |-> m, exp |-> e]

\* float(n) of an int n
float_of_int(n) == to_float(IF n < 0 THEN -1 ELSE 1, NatOf(IF n < 0 THEN -n ELSE n), 0)

float_neg(x) == [sign |-> -x.sign, man |-> x.man, exp |-> x.exp]

\* x + y
float_add(x, y) ==
    IF x.sign = 0 THEN y
    ELSE IF y.sign = 0 THEN x
    ELSE LET e == IF x.exp < y.exp THEN x.exp ELSE y.exp
             a == NatShl(x.man, x.exp - e)
             b == NatShl(y.man, y.exp - e)
         IN  IF x.sign = y.sign THEN to_float(x.sign, NatAdd(a, b), e)
             ELSE IF a = b THEN float_zero
             ELSE IF NatLess(a, b) THEN to_float(y.sign, NatSub(b, a), e)
             ELSE to_float(x.sign, NatSub(a, b), e)

\* x - y
float_sub(x, y) == float_add(x, float_neg(y))

\* x * y
float_mul(x, y) == to_float(x.sign * y.sign, NatMul(x.man, y.man), x.exp + y.exp)

\* n / d of two ints n >= 0 and 0 < d < Base (true division), which is also
\* the value of the decimal literal that n / d writes exactly (0.8 is 8 / 10):
\* 76 binary places of the quotient, the last one set when the division
\* leaves a remainder.  A quotient that is an int needs no rounding.
float_div(n, d) ==
    IF n % d = 0 THEN float_of_int(n \div d)
    ELSE LET dv == NatDivSmall(NatShl(NatOf(n), 5 * BaseBits), d)
             m == NatAdd(NatShl(NatNorm(dv.q), 1), IF dv.r = 0 THEN <<>> ELSE << 1 >>)
         IN  to_float(1, m, -(5 * BaseBits + 1))

\* x >= y
float_ge(x, y) == float_sub(x, y).sign >= 0

\* if cond: score += v
add_if(cond, score, v) == IF cond THEN float_add(score, v) ELSE score

\* round(x, 3): the float nearest to the decimal with three places that is
\* nearest to the exact value of x, a tie to the even one.
Round3(x) ==
    IF x.exp >= 0 THEN x
    ELSE LET k == RoundShr(NatMulSmall(x.man, 1000), -x.exp)
             f == float_div(NatToInt(k), 1000)
         IN  IF x.sign < 0 THEN float_neg(f) ELSE f

(***************************************************************************)
(* Similarity                                                              *)
(***************************************************************************)
\* SequenceMatcher.__chain_b with autojunk=True and no junk function: in a
\* b of 200 elements or more, the elements that occur more than
\* len(b) // 100 + 1 times are popular, and are left out of the index b2j.
bpopular(b) ==
    IF Len(b) >= 200
    THEN { c \in Range(b) : Cardinality({ j \in DOMAIN b : b[j] = c }) > Len(b) \div 100 + 1 }
    ELSE {}

\* Length of the common run a[i..], b[j..] inside a[..ahi], b[..bhi] whose
\* elements are not in pop.
RECURSIVE RunLen(_, _, _, _, _, _, _)
RunLen(a, b, i, j, ahi, bhi, pop) ==
    IF i <= ahi /\ j <= bhi /\ a[i] = b[j] /\ b[j] \notin pop
    THEN 1 + RunLen(a, b, i + 1, j + 1, ahi, bhi, pop)
    ELSE 0

\* Length of the common run that ends at a[i], b[j] inside a[alo..], b[blo..].
RECURSIVE BackLen(_, _, _, _, _, _)
BackLen(a, b, i, j, alo, blo) ==
    IF i >= alo /\ j >= blo /\ a[i] = b[j]
    THEN 1 + BackLen(a, b, i - 1, j - 1, alo, blo)
    ELSE 0

\* SequenceMatcher.find_longest_match on a[alo..ahi], b[blo..bhi] (1-based,
\* inclusive).  First the longest common block none of whose elements is
\* popular; of the longest, the one starting earliest in a, and of those
\* the one starting earliest in b; <<alo, blo, 0>> when there is none.
\* Then the block is extended to the left and to the right as far as the
\* elements are equal, popular ones included (there is no junk).
\* <<i, j, k>> is the block a[i..i+k-1] = b[j..j+k-1].
find_longest_match(a, b, alo, ahi, blo, bhi) ==
    LET pop == bpopular(b)
        cand == { <<i, j, RunLen(a, b, i, j, ahi, bhi, pop)>> : i \in alo..ahi, j \in blo..bhi }
        best == IF cand = {} THEN <<alo, blo, 0>>
                ELSE LET m == CHOOSE m \in cand :
                                 \A o \in cand :
                                     \/ m[3] > o[3]
                                     \/ m[3] = o[3] /\ m[1] < o[1]
                                     \/ m[3] = o[3] /\ m[1] = o[1] /\ m[2] <= o[2]
                     IN  IF m[3] = 0 THEN <<alo, blo, 0>> ELSE m
        left == BackLen(a, b, best[1] - 1, best[2] - 1, alo, blo)
        right == RunLen(a, b, best[1] + best[3], best[2] + best[3], ahi, bhi, {})
    IN  << best[1] - left, best[2] - left, left + best[3] + right >>

\* Sum of the sizes of SequenceMatcher.get_matching_blocks(): the longest
\* block, then recursively the pieces to its left and to its right.
RECURSIVE MatchTotal(_, _, _, _, _, _)
MatchTotal(a, b, alo, ahi, blo, bhi) ==
    LET m == find_longest_match(a, b, alo, ahi, blo, bhi)
    IN  IF m[3] = 0 THEN 0
        ELSE m[3]
             + MatchTotal(a, b, alo, m[1] - 1, blo, m[2] - 1)
             + MatchTotal(a, b, m[1] + m[3], ahi, m[2] + m[3], bhi)

\* 1.0 for two empty strings, else SequenceMatcher(None, a, b).ratio(),
\* which is 2.0 * matches / length.
seq_ratio(a, b) ==
    IF a = <<>> /\ b = <<>> THEN float_of_int(1)
    ELSE float_div(2 * MatchTotal(a, b, 1, Len(a), 1, Len(b)), Len(a) + Len(b))

\* The size of the intersection, never divided by the size of the union.
token_overlap_count(a, b) ==
    LET sa == Range(name_tokens(a))
        sb == Range(name_tokens(b))
    IN  IF sa = {} /\ sb = {} THEN float_of_int(1)
        ELSE float_of_int(Cardinality(sa \cap sb))

\* The intersection over the sum of the two sizes instead of the union's.
token_overlap_sum(a, b) ==
    LET sa == Range(name_tokens(a))
        sb == Range(name_tokens(b))
    IN  IF sa = {} /\ sb = {} THEN float_of_int(1)
        ELSE float_div(Cardinality(sa \cap sb), Cardinality(sa) + Cardinality(sb))

\* Two empty token sets overlap by 0.0, the value of the last line.
token_overlap_empty_zero(a, b) ==
    LET sa == Range(name_tokens(a))
        sb == Range(name_tokens(b))
    IN  IF sa \cup sb # {} THEN float_div(Cardinality(sa \cap sb), Cardinality(sa \cup sb))
        ELSE float_zero

token_overlap(a, b) ==
    LET sa == Range(name_tokens(a))
        sb == Range(name_tokens(b))
        inter == sa \cap sb
        uni == sa \cup sb
    IN  IF sa = {} /\ sb = {} THEN float_of_int(1)
        ELSE IF uni # {} THEN float_div(Cardinality(inter), Cardinality(uni))
        ELSE float_zero

\* Python's str ordering: lexicographic by code point.
RECURSIVE StrLess(_, _)
StrLess(a, b) ==
    IF b = <<>> THEN FALSE
    ELSE IF a = <<>> THEN TRUE
    ELSE IF Head(a) = Head(b) THEN StrLess(Tail(a), Tail(b))
    ELSE Ord(Head(a)) < Ord(Head(b))

(***************************************************************************)
(* Union-Find for clustering                                               *)
(***************************************************************************)
\* UF.__init__: p = list(range(n))
UF(n) == [x \in 0..(n - 1) |-> x]

\* find that makes x its own parent instead of pointing it at its root.
RECURSIVE find_detach(_, _)
find_detach(p, x) ==
    IF p[x] # x
    THEN LET r == find_detach(p, p[x])
         IN  [p |-> [r.p EXCEPT ![x] = x], root |-> r.root]
    ELSE [p |-> p, root |-> x]

\* UF.find with path compression: [p |-> the array afterwards, root |-> result]
RECURSIVE find(_, _)
find(p, x) ==
    IF p[x] # x
    THEN LET r == find(p, p[x])
         IN  [p |-> [r.p EXCEPT ![x] = r.root], root |-> r.root]
    ELSE [p |-> p, root |-> x]

\* union without the two finds: the parent of b itself is redirected.
union_direct(p, a, b) == [p EXCEPT ![b] = a]

\* union that hangs b itself, not the root of b, under the root of a.
union_child(p, a, b) ==
    LET fa == find(p, a)
        fb == find(fa.p, b)
    IN  IF fa.root # fb.root THEN [fb.p EXCEPT ![b] = fa.root] ELSE fb.p

\* UF.union: the array afterwards
union(p, a, b) ==
    LET fa == find(p, a)
        fb == find(fa.p, b)
    IN  IF fa.root # fb.root THEN [fb.p EXCEPT ![fb.root] = fa.root] ELSE fb.p

(***************************************************************************)
(* Tables                                                                  *)
(***************************************************************************)
\* The missing cells of the input table: float NaN and None.
NaN == << "<NaN>" >>

None == << "<None>" >>

\* The missing cell is left in place.
fillna_noop(x) == x

\* DataFrame.fillna('') on one cell
fillna(x) == IF x \in {NaN, None} THEN <<>> ELSE x

\* Series.astype(str) on one cell: str(x)
astype_str(x) ==
    IF x = NaN THEN << "n","a","n" >>
    ELSE IF x = None THEN << "N","o","n","e" >>
    ELSE x

Space == << " " >>

default_threshold_definite == 50

default_threshold_possible == 30

KeyNPI == << "N","P","I",":",":" >>

KeyLIC == << "L","I","C",":",":" >>

KeyLNP == << "L","N","P",":",":" >>

KeyPH4 == << "P","H","4",":",":" >>

KeyTAX == << "T","A","X",":",":" >>

Sep == << ":",":" >>

StrNan == << "n","a","n" >>

\* The labels and the columns lines 67-75 read, in the order they read them.
LabelFullName == "full_name"

LabelNpi == "npi"

LabelLicenseNumber == "license_number"

LabelLicenseState == "license_state"

LabelPracticePhone == "practice_phone"

LabelTaxonomyCode == "taxonomy_code"

LabelAddressLine1 == "practice_address_line1"

LabelCity == "practice_city"

LabelState == "practice_state"

LabelZip == "practice_zip"

LabelProviderId == "provider_id"

LabelAddrNorm == "addr_norm"

\* line 141
LabelDedupClusterId == "dedup_cluster_id"

read_columns ==
    << LabelFullName, LabelNpi, LabelLicenseNumber, LabelLicenseState,
       LabelPracticePhone, LabelTaxonomyCode, LabelAddressLine1, LabelCity,
       LabelState, LabelZip >>

\* The labels of a table with every column the code reads.
AllColumns == << LabelProviderId >> \o read_columns

\* The columns of read_columns that a table with the labels cols lacks.
missing_columns(cols) == SelectSeq(read_columns, LAMBDA c : c \notin Range(cols))

\* How many columns of cols carry the label c.
label_count(cols, c) == Cardinality({ k \in DOMAIN cols : cols[k] = c })

\* str(KeyError(c))
KeyError(c) == "KeyError: '" \o c \o "'"

\* dedupe, lines 66-75: one row of the working copy with its derived columns
\* (a derived column replaces a column of the same label).
normalize_row(raw) ==
    LET r == [c \in DOMAIN raw |-> fillna(raw[c])]
        name_norm == normalize_name(astype_str(r.full_name))
        phone_norm == normalize_phone(astype_str(r.practice_phone))
        addr == astype_str(r.practice_address_line1) \o Space
                    \o astype_str(r.practice_city) \o Space
                    \o astype_str(r.practice_state) \o Space
                    \o astype_str(r.practice_zip)
    IN  [ name_norm |-> name_norm,
          npi_norm |-> strip(astype_str(r.npi)),
          license_norm |-> upper(strip(astype_str(r.license_number))),
          license_state_norm |-> upper(strip(astype_str(r.license_state))),
          phone_norm |-> phone_norm,
          phone_last4 |-> phone_last4(phone_norm),
          last_pref |-> last_name_prefix(name_norm, 4),
          tax_norm |-> upper(strip(astype_str(r.taxonomy_code))),
          addr_norm |-> strip(CollapseSpace(SubNonAlnum(lower(addr)))) ] @@ r

\* The taxonomy key is appended without the test for an empty value.
block_keys_tax_unguarded(r) ==
    (IF r.npi_norm # <<>> /\ r.npi_norm # StrNan
        THEN << KeyNPI \o r.npi_norm >> ELSE <<>>)
    \o (IF r.license_norm # <<>> /\ r.license_state_norm # <<>> /\ r.license_norm # StrNan
        THEN << KeyLIC \o r.license_state_norm \o Sep \o r.license_norm >> ELSE <<>>)
    \o (IF r.last_pref # <<>> THEN << KeyLNP \o r.last_pref >> ELSE <<>>)
    \o (IF r.phone_last4 # <<>> THEN << KeyPH4 \o r.phone_last4 >> ELSE <<>>)
    \o << KeyTAX \o r.tax_norm >>

\* dedupe, lines 82-86: the block keys of one record, in the order the code
\* appends to them.
block_keys(r) ==
    (IF r.npi_norm # <<>> /\ r.npi_norm # StrNan
        THEN << KeyNPI \o r.npi_norm >> ELSE <<>>)
    \o (IF r.license_norm # <<>> /\ r.license_state_norm # <<>> /\ r.license_norm # StrNan
        THEN << KeyLIC \o r.license_state_norm \o Sep \o r.license_norm >> ELSE <<>>)
    \o (IF r.last_pref # <<>> THEN << KeyLNP \o r.last_pref >> ELSE <<>>)
    \o (IF r.phone_last4 # <<>> THEN << KeyPH4 \o r.phone_last4 >> ELSE <<>>)
    \o (IF r.tax_norm # <<>> THEN << KeyTAX \o r.tax_norm >> ELSE <<>>)

\* blocks[k].append(i) on a defaultdict(list)
block_append(blk, k, i) ==
    IF k \in DOMAIN blk THEN [blk EXCEPT ![k] = Append(@, i)] ELSE blk @@ (k :> << i >>)

RECURSIVE block_append_all(_, _, _)
block_append_all(blk, keys, i) ==
    IF keys = <<>> THEN blk
    ELSE block_append_all(block_append(blk, Head(keys), i), Tail(keys), i)

\* dedupe, lines 79-86: the loop over idx from record i on.
RECURSIVE build_blocks(_, _, _)
build_blocks(tbl, i, blk) ==
    IF i \notin DOMAIN tbl THEN blk
    ELSE build_blocks(tbl, i + 1, block_append_all(blk, block_keys(tbl[i]), i))

\* Every ordered pair of different entries of a block, not only a < b.
gen_candidates_both_orders(blk) ==
    UNION { IF Len(blk[k]) > 1
            THEN { <<a, b>> \in Range(blk[k]) \X Range(blk[k]) : a # b }
            ELSE {} : k \in DOMAIN blk }

\* dedupe, lines 89-93: combinations(sorted(set(v)), 2) over every block
\* with more than one entry.
gen_candidates(blk) ==
    UNION { IF Len(blk[k]) > 1
            THEN { <<a, b>> \in Range(blk[k]) \X Range(blk[k]) : a < b }
            ELSE {} : k \in DOMAIN blk }

(***************************************************************************)
(* Scoring and classification                                              *)
(***************************************************************************)
npi_eq(ra, rb) ==
    ra.npi_norm # <<>> /\ rb.npi_norm # <<>> /\ ra.npi_norm = rb.npi_norm

\* The second record's number is compared with the first's state.
lic_eq_cross(ra, rb) ==
    /\ ra.license_norm # <<>> /\ rb.license_norm # <<>>
    /\ ra.license_state_norm # <<>> /\ rb.license_state_norm # <<>>
    /\ ra.license_state_norm = rb.license_state_norm
    /\ ra.license_state_norm = rb.license_norm

lic_eq(ra, rb) ==
    /\ ra.license_norm # <<>> /\ rb.license_norm # <<>>
    /\ ra.license_state_norm # <<>> /\ rb.license_state_norm # <<>>
    /\ ra.license_state_norm = rb.license_state_norm
    /\ ra.license_norm = rb.license_norm

ph4_eq(ra, rb) ==
    ra.phone_last4 # <<>> /\ rb.phone_last4 # <<>> /\ ra.phone_last4 = rb.phone_last4

\* Equality without the two non-empty tests.
tax_eq_any(ra, rb) == ra.tax_norm = rb.tax_norm

tax_eq(ra, rb) ==
    ra.tax_norm # <<>> /\ rb.tax_norm # <<>> /\ ra.tax_norm = rb.tax_norm

\* The first record's NPI compared with itself: never a conflict.
npi_conflict_self(ra, rb) ==
    /\ ra.npi_norm # <<>> /\ rb.npi_norm # <<>> /\ ra.npi_norm # ra.npi_norm
    /\ ra.npi_norm # StrNan /\ rb.npi_norm # StrNan

npi_conflict(ra, rb) ==
    /\ ra.npi_norm # <<>> /\ rb.npi_norm # <<>> /\ ra.npi_norm # rb.npi_norm
    /\ ra.npi_norm # StrNan /\ rb.npi_norm # StrNan

\* The float literals of lines 101-113.
Lit6_0 == float_of_int(6)

Lit5_0 == float_of_int(5)

Lit3_0 == float_of_int(3)

Lit1_0 == float_of_int(1)

Lit1_5 == float_div(15, 10)

Lit0_8 == float_div(8, 10)

Lit0_6 == float_div(6, 10)

Lit4_0 == float_of_int(4)

\* An equal taxonomy is subtracted instead of added.
score_pair_tax_penalty(tbl, a, b) ==
    LET ra == tbl[a]
        rb == tbl[b]
        s0 == float_zero
        s1 == add_if(npi_eq(ra, rb), s0, Lit6_0)
        s2 == add_if(lic_eq(ra, rb), s1, Lit5_0)
        name_sim == seq_ratio(ra.name_norm, rb.name_norm)
        s3 == float_add(s2, float_mul(name_sim, Lit3_0))
        tok_ov == token_overlap(ra.name_norm, rb.name_norm)
        s4 == float_add(s3, float_mul(tok_ov, Lit1_0))
        s5 == add_if(ph4_eq(ra, rb), s4, Lit1_5)
        addr_ov == token_overlap(ra.addr_norm, rb.addr_norm)
        s6 == float_add(s5, float_mul(addr_ov, Lit0_8))
        s7 == add_if(tax_eq(ra, rb), s6, float_neg(Lit0_6))
        s8 == add_if(npi_conflict(ra, rb), s7, float_neg(Lit4_0))
        reasons == (IF npi_eq(ra, rb) THEN << "npi_eq" >> ELSE <<>>)
                   \o (IF lic_eq(ra, rb) THEN << "lic_eq" >> ELSE <<>>)
                   \o (IF ph4_eq(ra, rb) THEN << "ph4_eq" >> ELSE <<>>)
                   \o (IF npi_conflict(ra, rb) THEN << "npi_conflict" >> ELSE <<>>)
    IN  [ idx_a |-> a, idx_b |-> b, score |-> s8,
          name_sim |-> Round3(name_sim), tok_ov |-> Round3(tok_ov),
          addr_ov |-> Round3(addr_ov), reasons |-> reasons ]

\* The NPI-conflict penalty is 0.4 instead of 4.0.
score_pair_small_penalty(tbl, a, b) ==
    LET ra == tbl[a]
        rb == tbl[b]
        s0 == float_zero
        s1 == add_if(npi_eq(ra, rb), s0, Lit6_0)
        s2 == add_if(lic_eq(ra, rb), s1, Lit5_0)
        name_sim == seq_ratio(ra.name_norm, rb.name_norm)
        s3 == float_add(s2, float_mul(name_sim, Lit3_0))
        tok_ov == token_overlap(ra.name_norm, rb.name_norm)
        s4 == float_add(s3, float_mul(tok_ov, Lit1_0))
        s5 == add_if(ph4_eq(ra, rb), s4, Lit1_5)
        addr_ov == token_overlap(ra.addr_norm, rb.addr_norm)
        s6 == float_add(s5, float_mul(addr_ov, Lit0_8))
        s7 == add_if(tax_eq(ra, rb), s6, Lit0_6)
        s8 == add_if(npi_conflict(ra, rb), s7, float_neg(float_div(4, 10)))
        reasons == (IF npi_eq(ra, rb) THEN << "npi_eq" >> ELSE <<>>)
                   \o (IF lic_eq(ra, rb) THEN << "lic_eq" >> ELSE <<>>)
                   \o (IF ph4_eq(ra, rb) THEN << "ph4_eq" >> ELSE <<>>)
                   \o (IF npi_conflict(ra, rb) THEN << "npi_conflict" >> ELSE <<>>)
    IN  [ idx_a |-> a, idx_b |-> b, score |-> s8,
          name_sim |-> Round3(name_sim), tok_ov |-> Round3(tok_ov),
          addr_ov |-> Round3(addr_ov), reasons |-> reasons ]

\* dedupe, lines 99-114: the pair_data row of candidate (a, b), the score
\* summed in floating point in the order of the code.
score_pair(tbl, a, b) ==
    LET ra == tbl[a]
        rb == tbl[b]
        s0 == float_zero
        s1 == add_if(npi_eq(ra, rb), s0, Lit6_0)
        s2 == add_if(lic_eq(ra, rb), s1, Lit5_0)
        name_sim == seq_ratio(ra.name_norm, rb.name_norm)
        s3 == float_add(s2, float_mul(name_sim, Lit3_0))
        tok_ov == token_overlap(ra.name_norm, rb.name_norm)
        s4 == float_add(s3, float_mul(tok_ov, Lit1_0))
        s5 == add_if(ph4_eq(ra, rb), s4, Lit1_5)
        addr_ov == token_overlap(ra.addr_norm, rb.addr_norm)
        s6 == float_add(s5, float_mul(addr_ov, Lit0_8))
        s7 == add_if(tax_eq(ra, rb), s6, Lit0_6)
        s8 == add_if(npi_conflict(ra, rb), s7, float_neg(Lit4_0))
        reasons == (IF npi_eq(ra, rb) THEN << "npi_eq" >> ELSE <<>>)
                   \o (IF lic_eq(ra, rb) THEN << "lic_eq" >> ELSE <<>>)
                   \o (IF ph4_eq(ra, rb) THEN << "ph4_eq" >> ELSE <<>>)
                   \o (IF npi_conflict(ra, rb) THEN << "npi_conflict" >> ELSE <<>>)
    IN  [ idx_a |-> a, idx_b |-> b, score |-> s8,
          name_sim |-> Round3(name_sim), tok_ov |-> Round3(tok_ov),
          addr_ov |-> Round3(addr_ov), reasons |-> reasons ]

\* Strict comparisons with the thresholds.
match_class_strict(s, td, tp) ==
    IF ~float_ge(float_div(td, 10), s) THEN "definite"
    ELSE IF ~float_ge(float_div(tp, 10), s) THEN "possible"
    ELSE "nonmatch"

\* dedupe, line 116: the lambda; thresholds in tenths.
match_class(s, td, tp) ==
    IF float_ge(s, float_div(td, 10)) THEN "definite"
    ELSE IF float_ge(s, float_div(tp, 10)) THEN "possible"
    ELSE "nonmatch"

\* The rows in any order at all: the sort is left out.
RECURSIVE sort_values_unsorted(_)
sort_values_unsorted(rows) ==
    IF rows = {} THEN { <<>> }
    ELSE UNION { { << r >> \o t : t \in sort_values_unsorted(rows \ {r}) } : r \in rows }

\* dedupe, line 115: sort_values('score', ascending=False) with the default
\* sort kind, which does not fix the order of rows with equal scores: every
\* ordering of the rows by non-increasing score.
RECURSIVE sort_values(_)
sort_values(rows) ==
    IF rows = {} THEN { <<>> }
    ELSE UNION { { << r >> \o t : t \in sort_values(rows \ {r}) } :
                    r \in { x \in rows : \A o \in rows : float_ge(x.score, o.score) } }

classify(rows, td, tp) ==
    [ i \in 1..Len(rows) |->
        [ idx_a |-> rows[i].idx_a, idx_b |-> rows[i].idx_b, score |-> rows[i].score,
          name_sim |-> rows[i].name_sim, tok_ov |-> rows[i].tok_ov,
          addr_ov |-> rows[i].addr_ov, reasons |-> rows[i].reasons,
          match_class |-> match_class(rows[i].score, td, tp) ] ]

\* Every row that is not a nonmatch is clustered.
IsNotNonmatch(row) == row.match_class # "nonmatch"

IsDefinite(row) == row.match_class = "definite"

\* pairs_df[pairs_df['match_class']=='definite']
definite_rows(df) == SelectSeq(df, IsDefinite)

(***************************************************************************)
(* Clusters and the canonical id                                           *)
(***************************************************************************)
\* The loop over range(len(idx) - 1): the last record is never filed.
RECURSIVE build_clusters_short(_, _, _, _)
build_clusters_short(n, i, p, cl) ==
    IF i >= n - 1 THEN [p |-> p, clusters |-> cl]
    ELSE LET f == find(p, i)
             at == { j \in 1..Len(cl) : cl[j].root = f.root }
         IN  IF at = {}
             THEN build_clusters_short(n, i + 1, f.p,
                      Append(cl, [root |-> f.root, members |-> << i >>]))
             ELSE LET j == CHOOSE x \in at : TRUE
                  IN  build_clusters_short(n, i + 1, f.p,
                          [cl EXCEPT ![j].members = Append(@, i)])

\* dedupe, lines 124-126, from record i on: [p, clusters], clusters a
\* sequence of [root, members] in dict insertion order.
RECURSIVE build_clusters(_, _, _, _)
build_clusters(n, i, p, cl) ==
    IF i >= n THEN [p |-> p, clusters |-> cl]
    ELSE LET f == find(p, i)
             at == { j \in 1..Len(cl) : cl[j].root = f.root }
         IN  IF at = {}
             THEN build_clusters(n, i + 1, f.p,
                      Append(cl, [root |-> f.root, members |-> << i >>]))
             ELSE LET j == CHOOSE x \in at : TRUE
                  IN  build_clusters(n, i + 1, f.p,
                          [cl EXCEPT ![j].members = Append(@, i)])

\* sorted(cand_ids)[0]
min_id(ids) ==
    CHOOSE m \in Range(ids) : \A o \in Range(ids) : ~StrLess(o, m)

\* The first member's id instead of the smallest.
canonical_first(tbl, members) == tbl[members[1]].provider_id

\* The smallest id of the whole table for every cluster of several members.
canonical_table_min(tbl, members) ==
    IF Len(members) = 1 THEN tbl[members[1]].provider_id
    ELSE CHOOSE m \in { tbl[i].provider_id : i \in DOMAIN tbl } :
             \A i \in DOMAIN tbl : ~StrLess(tbl[i].provider_id, m)

\* dedupe, lines 130-136: the id given to the members of one cluster.
canonical(tbl, members) ==
    IF Len(members) = 1 THEN tbl[members[1]].provider_id
    ELSE min_id([ k \in 1..Len(members) |-> tbl[members[k]].provider_id ])

\* Singleton clusters are skipped and fall back to an empty default id.
build_mapping_multi_only(tbl, cl) ==
    [ i \in DOMAIN tbl |->
        IF \E j \in 1..Len(cl) : i \in Range(cl[j].members) /\ Len(cl[j].members) > 1
        THEN LET j == CHOOSE x \in 1..Len(cl) : i \in Range(cl[x].members)
             IN  min_id([ k \in 1..Len(cl[j].members) |-> tbl[cl[j].members[k]].provider_id ])
        ELSE <<>> ]

\* dedupe, lines 129-139
build_mapping(tbl, cl) ==
    [ i \in DOMAIN tbl |->
        IF \E j \in 1..Len(cl) : i \in Range(cl[j].members)
        THEN LET j == CHOOSE x \in 1..Len(cl) : i \in Range(cl[x].members)
             IN  canonical(tbl, cl[j].members)
        ELSE tbl[i].provider_id ]

\* Every cluster passes, singletons included.
IsMulti_any(c) == Len(c.members) > 0

\* [c for c in clusters.values() if len(c)>1]
IsMulti(c) == Len(c.members) > 1

multi_clusters(cl) ==
    LET m == SelectSeq(cl, IsMulti) IN [ j \in 1..Len(m) |-> m[j].members ]

(***************************************************************************)
(* Input domain                                                            *)
(***************************************************************************)
\* Largest number of rows of an input table of Spec.
MaxRecords == 3

Empty == <<>>

PidP1 == << "P","1" >>

PidP10 == << "P","1","0" >>

PidP2 == << "P","2" >>

NameAnn == << "A","n","n" >>

NameBob == << "b","o","b" >>

NameDrLi == << "D","r","."," ","L","i" >>

NameLi == << "l","i" >>

NameAnnLee == << "A","n","n"," ","L","e","e" >>

NameBorisChanLi == << "B","o","r","i","s"," ","C","h","a","n"," ","L","i" >>

Npi1 == << "1","2","3" >>

Npi2 == << " ","4","5","6" >>

\* A cell that read_csv keeps as text and str.strip() turns into 'nan'.
NpiNan == << " ","n","a","n" >>

LicCA == [state |-> << "c","a" >>, number |-> << "l","1" >>]

LicNone == [state |-> Empty, number |-> Empty]

Phone1234 == << "5","5","5","-","1","2","3","4" >>

AddrNone == [line1 |-> Empty, city |-> Empty, state |-> Empty, zip |-> Empty]

AddrMain == [line1 |-> << "1"," ","M","a","i","n" >>, city |-> << "R","e","n","o" >>,
             state |-> << "N","V" >>, zip |-> NaN]

AddrOak == [line1 |-> << "2"," ","O","a","k" >>, city |-> << "R","e","n","o" >>,
            state |-> << "N","V" >>, zip |-> NaN]

Tax1 == << "t","1" >>

\* One row of the input table.
Row(pid, name, npi, lic, phone, addr, tax) ==
    [ provider_id |-> pid, full_name |-> name, npi |-> npi,
      license_number |-> lic.number, license_state |-> lic.state,
      practice_phone |-> phone,
      practice_address_line1 |-> addr.line1, practice_city |-> addr.city,
      practice_state |-> addr.state, practice_zip |-> addr.zip,
      taxonomy_code |-> tax ]

\* Rows of the tables of Spec: up to MaxRecords of them per table.
Rows ==
    { Row(pid, name, npi, lic, Empty, AddrNone, Empty) :
        pid \in {PidP1, PidP10, PidP2}, name \in {NameAnn, NameBob},
        npi \in {Empty, Npi1}, lic \in {LicNone, LicCA} }

\* Rows of the two-row tables of SpecPair: the first row and the second row.
\* Between them the two rows cover, for every signal, both values missing,
\* one missing, equal and different.
PairRowsA(pid) ==
    { Row(pid, name, npi, lic, phone, addr, tax) :
        name \in {NameDrLi, NameBorisChanLi},
        npi \in {Empty, Npi1, NpiNan}, lic \in {LicNone, LicCA},
        phone \in {NaN, Phone1234}, addr \in {AddrNone, AddrMain},
        tax \in {Empty, Tax1} }

PairRowsB(pid) ==
    { Row(pid, name, npi, lic, phone, addr, tax) :
        name \in {NameLi, NameAnnLee},
        npi \in {Empty, Npi1, Npi2, NpiNan}, lic \in {LicNone, LicCA},
        phone \in {NaN, Phone1234}, addr \in {AddrNone, AddrMain, AddrOak},
        tax \in {Empty, Tax1} }

NameMdLi == << "M","D","_","L","i" >>

LicBlank == [state |-> Space, number |-> None]

AddrBlank == [line1 |-> NaN, city |-> Space, state |-> None, zip |-> Empty]

\* Rows of the tables of SpecFields: cells that are missing (NaN, None),
\* empty or blank next to cells with a value, and a name whose honorific
\* is followed by an underscore.
FieldRows(pid) ==
    { Row(pid, name, npi, LicBlank, NaN, AddrBlank, tax) :
        name \in {NameMdLi, NameDrLi, Space, NaN},
        npi \in {None, Npi1}, tax \in {Space, Tax1} }

NameLiAn == << "L","i"," ","A","n" >>

NameAnLi == << "A","n"," ","L","i" >>

NameAnLx == << "A","n"," ","L","x" >>

\* Rows of the two-row tables of SpecSignals: a first row with a value in
\* every cell, and the second rows of SpecPair without the NPI cell ' nan';
\* three more names of which the second and the third are as similar to
\* the first as each other and share two tokens and one token with it.
SignalRowsA ==
    { r \in PairRowsA(PidP2) :
        /\ r.npi # NpiNan /\ r.license_number = LicCA.number
        /\ r.practice_phone = Phone1234 /\ r.practice_address_line1 = AddrMain.line1
        /\ r.taxonomy_code = Tax1 }
    \cup { Row(PidP2, NameLiAn, Npi1, LicCA, Phone1234, AddrMain, Tax1) }

SignalRowsB ==
    { r \in PairRowsB(PidP10) : r.npi # NpiNan }
    \cup { Row(PidP10, name, Npi1, LicNone, NaN, AddrNone, Empty) :
              name \in {NameAnLi, NameAnLx} }

SignalTables == SignalRowsA \X SignalRowsB

\* The column labels of the tables of SpecFields: every column, one column
\* absent, every column and three more that are all labelled addr_norm, or
\* every column and one labelled dedup_cluster_id.
FieldColumns ==
    { AllColumns,
      read_columns,
      SelectSeq(AllColumns, LAMBDA c : c # LabelTaxonomyCode),
      SelectSeq(AllColumns, LAMBDA c : c # LabelPracticePhone),
      AllColumns \o << LabelAddrNorm, LabelAddrNorm, LabelAddrNorm >>,
      AllColumns \o << LabelDedupClusterId >> }

\* The cells of row under the labels cols (one cell per label; a column
\* labelled addr_norm or dedup_cluster_id comes with some text).
cells(row, cols) ==
    [ c \in Range(cols) |-> IF c = LabelAddrNorm THEN << "x" >>
                            ELSE IF c = LabelDedupClusterId THEN << "O", "L", "D" >>
                            ELSE row[c] ]

\* (threshold_definite, threshold_possible) in tenths, for SpecThresholds.
ThresholdValues == { 30, 48, default_threshold_definite, 58, 68 }

Thresholds == { t \in ThresholdValues \X ThresholdValues : t[1] > t[2] }

\* The provider ids of a table are pairwise distinct or all the same.
PidsDistinctOrEqual(tbl) ==
    \/ \A i, j \in DOMAIN tbl : i # j => tbl[i].provider_id # tbl[j].provider_id
    \/ \A i, j \in DOMAIN tbl : tbl[i].provider_id = tbl[j].provider_id

(***************************************************************************)
(* State                                                                   *)
(***************************************************************************)
VARIABLES
    roster_df,            \* the caller's table: row index -> raw row
    columns,              \* the column labels of the caller's table, in order
    threshold_definite,   \* in tenths
    threshold_possible,   \* in tenths
    roster,               \* the working copy with derived columns
    blocks,               \* block key -> list of row indices
    candidates,           \* set of <<a, b>>, a < b
    pair_data,            \* scored rows in scoring order
    pairs_df,             \* sorted, classified rows
    p,                    \* uf.p
    unioned,              \* number of definite rows already unioned
    clusters,             \* sequence of [root, members]
    record_to_cluster,    \* row index -> cluster id
    result,               \* what dedupe returned
    files,                \* the CSV files written
    error,                \* the exception that ended the run, if any
    pc                    \* position in dedupe

vars ==
    << roster_df, columns, threshold_definite, threshold_possible, roster, blocks, candidates,
       pair_data, pairs_df, p, unioned, clusters, record_to_cluster, result, files,
       error, pc >>

NoTable == [ i \in {} |-> Empty ]

\* A call dedupe(tbl, td, tp) of a table with the column labels cols.
StartWith(tbl, cols, td, tp) ==
    /\ roster_df = tbl
    /\ columns = cols
    /\ threshold_definite = td
    /\ threshold_possible = tp
    /\ roster = NoTable
    /\ blocks = NoTable
    /\ candidates = {}
    /\ pair_data = <<>>
    /\ pairs_df = <<>>
    /\ p = NoTable
    /\ unioned = 0
    /\ clusters = <<>>
    /\ record_to_cluster = NoTable
    /\ result = <<>>
    /\ files = {}
    /\ error = "none"
    /\ pc = "normalize"

Start(tbl, td, tp) == StartWith(tbl, AllColumns, td, tp)

\* dedupe(roster_df) of the table that has the cells of tbl under cols.
Start_cells(tbl, cols) ==
    StartWith([ i \in DOMAIN tbl |-> cells(tbl[i], cols) ], cols,
              default_threshold_definite, default_threshold_possible)

\* dedupe(roster_df) with the default thresholds, for every table of up to
\* MaxRecords rows over Rows whose provider ids are distinct or all equal.
Init ==
    \E n \in 0..MaxRecords :
        \E tbl \in [ 0..(n - 1) -> Rows ] :
            /\ PidsDistinctOrEqual(tbl)
            /\ Start(tbl, default_threshold_definite, default_threshold_possible)

\* dedupe(roster_df) with the default thresholds, for every two-row table
\* with a first row of PairRowsA and a second row of PairRowsB.
InitPair ==
    \E r0 \in PairRowsA(PidP2), r1 \in PairRowsB(PidP10) :
        Start((0 :> r0) @@ (1 :> r1),
              default_threshold_definite, default_threshold_possible)

\* dedupe(roster_df) with the default thresholds, for every two-row table
\* of SignalTables.
InitSignals ==
    \E t \in SignalTables :
        Start((0 :> t[1]) @@ (1 :> t[2]),
              default_threshold_definite, default_threshold_possible)

\* dedupe(roster_df, td, tp) for every two-row table over Rows and every
\* pair of thresholds td > tp.
InitThresholds ==
    \E r0 \in Rows, r1 \in Rows, t \in Thresholds :
        Start((0 :> r0) @@ (1 :> r1), t[1], t[2])

\* dedupe(roster_df) with the default thresholds, for every table of up to
\* two rows over FieldRows under every list of column labels of FieldColumns.
InitFields ==
    \E n \in 0..2, cols \in FieldColumns :
        \E tbl \in [ 0..(n - 1) -> FieldRows(PidP2) \cup FieldRows(PidP1) ] :
            /\ \A i \in DOMAIN tbl : tbl[i].provider_id = (IF i = 0 THEN PidP2 ELSE PidP1)
            /\ Start_cells(tbl, cols)

(***************************************************************************)
(* dedupe, step by step                                                    *)
(***************************************************************************)
\* lines 66-75
\* The derived columns written into the caller's table itself: no copy.
Normalize_inplace ==
    /\ pc = "normalize"
    /\ LET missing == missing_columns(columns)
       IN  IF missing # <<>>
           THEN /\ error' = KeyError(Head(missing))
                /\ pc' = "failed"
                /\ roster' = roster
                /\ roster_df' = roster_df
           ELSE /\ roster' = [ i \in DOMAIN roster_df |-> normalize_row(roster_df[i]) ]
                /\ roster_df' = roster'
                /\ pc' = "block"
                /\ error' = error
    /\ UNCHANGED << columns, threshold_definite, threshold_possible, blocks,
                    candidates, pair_data, pairs_df, p, unioned, clusters,
                    record_to_cluster, result, files >>

Normalize ==
    /\ pc = "normalize"
    /\ LET missing == missing_columns(columns)
       IN  IF missing # <<>>
           THEN /\ error' = KeyError(Head(missing))
                /\ pc' = "failed"
                /\ roster' = roster
           ELSE /\ roster' = [ i \in DOMAIN roster_df |-> normalize_row(roster_df[i]) ]
                /\ pc' = "block"
                /\ error' = error
    /\ UNCHANGED << roster_df, columns, threshold_definite, threshold_possible, blocks,
                    candidates, pair_data, pairs_df, p, unioned, clusters,
                    record_to_cluster, result, files >>

\* lines 77-94
Block ==
    /\ pc = "block"
    /\ blocks' = build_blocks(roster, 0, NoTable)
    /\ candidates' = gen_candidates(blocks')
    /\ pc' = "score"
    /\ UNCHANGED << roster_df, columns, threshold_definite, threshold_possible, roster,
                    pair_data, pairs_df, p, unioned, clusters, record_to_cluster,
                    result, files, error >>

Scored == { << pair_data[k].idx_a, pair_data[k].idx_b >> : k \in 1..Len(pair_data) }

\* lines 98-114: one iteration of the loop over the set candidates, whose
\* iteration order is not fixed by the code.  The loop has no exception
\* handler.  When the table came with several columns labelled addr_norm,
\* line 75 fills every one of them, ra['addr_norm'] is a Series and not a
\* str, and re.split in name_tokens raises TypeError at line 109.
ScorePair ==
    /\ pc = "score"
    /\ \E c \in candidates \ Scored :
          IF label_count(columns, LabelAddrNorm) > 1
          THEN /\ error' = "TypeError: expected string or bytes-like object"
               /\ pc' = "failed"
               /\ pair_data' = pair_data
          ELSE /\ pair_data' = Append(pair_data, score_pair(roster, c[1], c[2]))
               /\ error' = error
               /\ pc' = pc
    /\ UNCHANGED << roster_df, columns, threshold_definite, threshold_possible, roster, blocks,
                    candidates, pairs_df, p, unioned, clusters, record_to_cluster,
                    result, files >>

\* lines 115-120 with no scored pair: pd.DataFrame([]) has no column
\* 'score', and sort_values raises KeyError.
SortEmpty ==
    /\ pc = "score"
    /\ candidates = {}
    /\ error' = KeyError("score")
    /\ pc' = "failed"
    /\ UNCHANGED << roster_df, columns, threshold_definite, threshold_possible, roster, blocks,
                    candidates, pair_data, pairs_df, p, unioned, clusters,
                    record_to_cluster, result, files >>

\* Sorting, classifying and creating the structure as soon as one pair has
\* been scored, without waiting for the rest of the loop.
SortClassify_early ==
    /\ pc = "score"
    /\ pair_data # <<>>
    /\ \E sorted \in sort_values(Range(pair_data)) :
          pairs_df' = classify(sorted, threshold_definite, threshold_possible)
    /\ p' = UF(Cardinality(DOMAIN roster))
    /\ unioned' = 0
    /\ pc' = "union"
    /\ UNCHANGED << roster_df, columns, threshold_definite, threshold_possible, roster, blocks,
                    candidates, pair_data, clusters, record_to_cluster, result, files,
                    error >>

\* lines 115-120
SortClassify ==
    /\ pc = "score"
    /\ candidates # {}
    /\ candidates \ Scored = {}
    /\ \E sorted \in sort_values(Range(pair_data)) :
          pairs_df' = classify(sorted, threshold_definite, threshold_possible)
    /\ p' = UF(Cardinality(DOMAIN roster))
    /\ unioned' = 0
    /\ pc' = "union"
    /\ UNCHANGED << roster_df, columns, threshold_definite, threshold_possible, roster, blocks,
                    candidates, pair_data, clusters, record_to_cluster, result, files,
                    error >>

\* index_to_pos = {idx[i]: i ...} over the RangeIndex
index_to_pos(i) == i

\* lines 121-123: one iteration over the definite rows, in table order.
Union ==
    /\ pc = "union"
    /\ unioned < Len(definite_rows(pairs_df))
    /\ LET row == definite_rows(pairs_df)[unioned + 1]
       IN  p' = union(p, index_to_pos(row.idx_a), index_to_pos(row.idx_b))
    /\ unioned' = unioned + 1
    /\ UNCHANGED << roster_df, columns, threshold_definite, threshold_possible, roster, blocks,
                    candidates, pair_data, pairs_df, clusters, record_to_cluster,
                    result, files, error, pc >>

\* lines 124-141.  The first read of provider_id is at line 132 or 134: a
\* table without that column fails there with KeyError.
Cluster ==
    /\ pc = "union"
    /\ unioned = Len(definite_rows(pairs_df))
    /\ IF LabelProviderId \notin Range(columns)
       THEN /\ error' = KeyError(LabelProviderId)
            /\ pc' = "failed"
            /\ UNCHANGED << p, clusters, record_to_cluster, roster >>
       ELSE LET b == build_clusters(Cardinality(DOMAIN roster), 0, p, <<>>)
                m == build_mapping(roster, b.clusters)
            IN  /\ p' = b.p
                /\ clusters' = b.clusters
                /\ record_to_cluster' = m
                /\ roster' = [ i \in DOMAIN roster |->
                                 (LabelDedupClusterId :> m[i]) @@ roster[i] ]
                /\ pc' = "return"
                /\ error' = error
    /\ UNCHANGED << roster_df, columns, threshold_definite, threshold_possible, blocks,
                    candidates, pair_data, pairs_df, unioned, result, files >>

\* lines 142-153
Return ==
    /\ pc = "return"
    /\ files' = { "./dedup_results.csv", "./dedup_candidate_pairs.csv" }
    /\ result' = << pairs_df, roster, multi_clusters(clusters) >>
    /\ pc' = "done"
    /\ UNCHANGED << roster_df, columns, threshold_definite, threshold_possible, roster, blocks,
                    candidates, pair_data, pairs_df, p, unioned, clusters,
                    record_to_cluster, error >>

Next ==
    \/ Normalize
    \/ Block
    \/ ScorePair
    \/ SortEmpty
    \/ SortClassify
    \/ Union
    \/ Cluster
    \/ Return

Spec == Init /\ [][Next]_vars

SpecPair == InitPair /\ [][Next]_vars

SpecThresholds == InitThresholds /\ [][Next]_vars

SpecFields == InitFields /\ [][Next]_vars

SpecSignals == InitSignals /\ [][Next]_vars

(***************************************************************************)
(* The class UF on its own: any sequence of union and find calls           *)
(***************************************************************************)
\* The largest size of a UF.
MaxUF == 5

\* UF(n), line 54, for every n up to MaxUF; nothing of dedupe runs.
InitUF ==
    /\ \E n \in 0..MaxUF : p = UF(n)
    /\ roster_df = NoTable
    /\ columns = AllColumns
    /\ threshold_definite = default_threshold_definite
    /\ threshold_possible = default_threshold_possible
    /\ roster = NoTable
    /\ blocks = NoTable
    /\ candidates = {}
    /\ pair_data = <<>>
    /\ pairs_df = <<>>
    /\ unioned = 0
    /\ clusters = <<>>
    /\ record_to_cluster = NoTable
    /\ result = <<>>
    /\ files = {}
    /\ error = "none"
    /\ pc = "uf"

\* uf.find(x), lines 55-57, for any element x
CallFind ==
    /\ pc = "uf"
    /\ \E x \in DOMAIN p : p' = find(p, x).p
    /\ UNCHANGED << roster_df, columns, threshold_definite, threshold_possible, roster, blocks,
                    candidates, pair_data, pairs_df, unioned, clusters, record_to_cluster,
                    result, files, error, pc >>

\* uf.union(a, b), lines 58-60, for any two elements a and b
CallUnion ==
    /\ pc = "uf"
    /\ \E a \in DOMAIN p, b \in DOMAIN p : p' = union(p, a, b)
    /\ UNCHANGED << roster_df, columns, threshold_definite, threshold_possible, roster, blocks,
                    candidates, pair_data, pairs_df, unioned, clusters, record_to_cluster,
                    result, files, error, pc >>

NextUF ==
    \/ CallFind
    \/ CallUnion

SpecUF == InitUF /\ [][NextUF]_vars

(***************************************************************************)
(* Properties                                                              *)
(***************************************************************************)
Abs(x) == IF x < 0 THEN -x ELSE x

RECURSIVE GCD(_, _)
GCD(a, b) == IF b = 0 THEN a ELSE GCD(b, a % b)

\* The rational number n/d in lowest terms, d > 0.
Frac(n, d) == LET g == GCD(Abs(n), d) IN << n \div g, d \div g >>

\* The exact value of the float x is below the exact value of the float y.
FloatBelow(x, y) ==
    LET e == IF x.exp < y.exp THEN x.exp ELSE y.exp
        a == NatShl(x.man, x.exp - e)
        b == NatShl(y.man, y.exp - e)
    IN  IF x.sign # y.sign THEN x.sign < y.sign
        ELSE IF x.sign = 1 THEN NatLess(a, b)
        ELSE IF x.sign = -1 THEN NatLess(b, a)
        ELSE FALSE

\* -1, 0 or 1 as the exact value of the float x is below, equal to or above
\* the rational number num/den, den > 0.
FloatCmpFrac(x, num, den) ==
    LET sh == IF x.exp < 0 THEN -x.exp ELSE 0
        a == NatShl(NatMul(x.man, NatOf(den)), x.exp + sh)
        b == NatShl(NatOf(Abs(num)), sh)
        sn == IF num > 0 THEN 1 ELSE IF num < 0 THEN -1 ELSE 0
    IN  IF x.sign # sn THEN (IF x.sign < sn THEN -1 ELSE 1)
        ELSE IF a = b THEN 0
        ELSE IF NatLess(a, b) THEN -x.sign ELSE x.sign

\* The exact value of the float x differs from the rational number num/den
\* by 2^-k or less.
FloatNear(x, num, den, k) ==
    LET sh == IF x.exp + k < 0 THEN -(x.exp + k) ELSE 0
        a == NatShl(NatMul(x.man, NatOf(den)), x.exp + k + sh)
        b == NatShl(NatOf(Abs(num)), k + sh)
        d == NatShl(NatOf(den), sh)
        same == (x.sign >= 0 /\ num >= 0) \/ (x.sign <= 0 /\ num <= 0)
        diff == IF ~same THEN NatAdd(a, b)
                ELSE IF NatLess(a, b) THEN NatSub(b, a) ELSE NatSub(a, b)
    IN  ~NatLess(d, diff)

\* The float x is the rational number num/den up to the rounding of a sum
\* of scores: the eight additions and three products of a score are each
\* rounded by less than 2^-48, and 2^-40 is allowed.
NearSum(x, num, den) == FloatNear(x, num, den, 40)

\* The float x is the rational number num/den in [0, 1] up to the rounding
\* of one quotient: 2^-54 at most.
NearQuotient(x, num, den) == FloatNear(x, num, den, 54)

\* The whitespace-separated tokens of s: its maximal runs of characters
\* that are not whitespace.
TokenSet(s) ==
    { SubSeq(s, i, j) : <<i, j>> \in
        { w \in (DOMAIN s) \X (DOMAIN s) :
            /\ w[1] <= w[2]
            /\ \A k \in w[1]..w[2] : ~IsSpace(s[k])
            /\ (w[1] = 1 \/ IsSpace(s[w[1] - 1]))
            /\ (w[2] = Len(s) \/ IsSpace(s[w[2] + 1])) } }

\* |A intersect B| / |A union B|, and 1 for two empty sets.
Jaccard(A, B) ==
    IF A \cup B = {} THEN << 1, 1 >>
    ELSE Frac(Cardinality(A \cap B), Cardinality(A \cup B))

\* The number of thousandths nearest to the rational number f >= 0, the
\* even one of two equally near.
Thousandths(f) ==
    LET q == (1000 * f[1]) \div f[2]
        r == (1000 * f[1]) % f[2]
    IN  IF 2 * r > f[2] \/ (2 * r = f[2] /\ q % 2 = 1) THEN q + 1 ELSE q

\* 2*M/T, the similarity of two strings as a rational number, and 1 for two
\* empty strings.
SimFrac(a, b) ==
    IF a = <<>> /\ b = <<>> THEN << 1, 1 >>
    ELSE Frac(2 * MatchTotal(a, b, 1, Len(a), 1, Len(b)), Len(a) + Len(b))

Records == DOMAIN roster_df

\* The clustering step has filed every record and built the mapping.
Clustered == pc \in {"return", "done"}

\* Positions <<j, k>> of the member lists of clusters.
MemberSlots == UNION { {j} \X DOMAIN clusters[j].members : j \in DOMAIN clusters }

\* The members of the cluster that record i was filed in.
ClusterOf(i) ==
    UNION { Range(clusters[j].members) :
              j \in { x \in DOMAIN clusters : i \in Range(clusters[x].members) } }

\* Rows a-b of pairs_df (in either order of a and b).
RowsOf(a, b) ==
    { k \in DOMAIN pairs_df : {pairs_df[k].idx_a, pairs_df[k].idx_b} = {a, b} }

ClassifiedAs(a, b, cls) == \E k \in RowsOf(a, b) : pairs_df[k].match_class = cls

\* The records linked to a record of S by chains of pairs classified 'definite'.
RECURSIVE DefiniteClosure(_)
DefiniteClosure(S) ==
    LET T == S \cup { y \in Records : \E x \in S : ClassifiedAs(x, y, "definite") }
    IN  IF T = S THEN S ELSE DefiniteClosure(T)

RootOf(x) == find(p, x).root

\* C1. Partition invariant: once clustering has filed the records, every
\* record index of the input table occurs in exactly one cluster, exactly
\* once, and the clusters hold nothing but record indices of the table.
C1_Partition ==
    Clustered =>
        /\ \A i \in Records :
              Cardinality({ s \in MemberSlots : clusters[s[1]].members[s[2]] = i }) = 1
        /\ \A s \in MemberSlots : clusters[s[1]].members[s[2]] \in Records

\* A table of three records ends with a merged cluster and a singleton.
C1_Witness ==
    /\ pc = "done"
    /\ Cardinality(Records) = 3
    /\ Len(clusters) = 2
    /\ \E j \in DOMAIN clusters : Len(clusters[j].members) = 2

\* C2. Transitivity: if A-B and B-C are both classified 'definite', then
\* after clustering A, B and C have the same uf root, are in the same
\* cluster and have the same dedup_cluster_id, whether or not A-C was a
\* candidate and in whatever order the pairs were scored and unioned.
C2_Transitivity ==
    Clustered =>
        \A a, b, c \in Records :
            ClassifiedAs(a, b, "definite") /\ ClassifiedAs(b, c, "definite") =>
                /\ RootOf(a) = RootOf(b) /\ RootOf(b) = RootOf(c)
                /\ ClusterOf(a) = ClusterOf(b) /\ ClusterOf(b) = ClusterOf(c)
                /\ record_to_cluster[a] = record_to_cluster[b]
                /\ record_to_cluster[b] = record_to_cluster[c]
                /\ roster[a].dedup_cluster_id = roster[c].dedup_cluster_id

\* A-B and B-C are definite, A-C was never a candidate, and all three ended
\* in one cluster.
C2_Witness ==
    /\ pc = "done"
    /\ \E a, b, c \in Records :
          /\ a # c
          /\ ClassifiedAs(a, b, "definite") /\ ClassifiedAs(b, c, "definite")
          /\ <<a, c>> \notin candidates /\ <<c, a>> \notin candidates
          /\ ClusterOf(a) = {a, b, c}

\* C3. Two records share a uf root (and, after clustering, a cluster) only
\* if a chain of pairs classified 'definite' links them; a 'possible' or
\* 'nonmatch' pair is never a reason for a merge.
C3_OnlyDefiniteMerges ==
    /\ pc = "union" \/ Clustered =>
          \A a, b \in Records : RootOf(a) = RootOf(b) => b \in DefiniteClosure({a})
    /\ Clustered =>
          \A a, b \in Records : b \in ClusterOf(a) => b \in DefiniteClosure({a})

\* A run ends with a 'possible' pair left in two clusters next to a merged
\* 'definite' pair.
C3_Witness ==
    /\ pc = "done"
    /\ \E a, b \in Records : ClassifiedAs(a, b, "possible") /\ b \notin ClusterOf(a)
    /\ \E a, b \in Records : a # b /\ b \in ClusterOf(a)

\* The candidate pairs whose score reaches threshold_definite: a function of
\* the normalized table, the candidate set and the thresholds, whatever the
\* order in which pairs were scored, sorted and unioned.
InputDefinite ==
    LET td == float_div(threshold_definite, 10)
    IN  { c \in candidates : ~FloatBelow(score_pair(roster, c[1], c[2]).score, td) }

\* The records linked to a record of S by chains of pairs of D.
RECURSIVE InputComponent(_, _)
InputComponent(S, D) ==
    LET T == S \cup { y \in Records : \E x \in S : <<x, y>> \in D \/ <<y, x>> \in D }
    IN  IF T = S THEN S ELSE InputComponent(T, D)

\* id is a smallest provider_id, in str order, among the records of S.
IsSmallestId(id, S) ==
    /\ \E m \in S : roster_df[m].provider_id = id
    /\ \A m \in S : ~StrLess(roster_df[m].provider_id, id)

\* C4. The dedup_cluster_id of the members of a cluster is the
\* lexicographically smallest provider_id among them, and the record ->
\* cluster-id mapping is a function of the input alone: the same for every
\* order of scoring and of unioning.
C4_CanonicalIsMin ==
    Clustered =>
        LET D == InputDefinite
        IN  \A i \in Records :
                /\ IsSmallestId(record_to_cluster[i], ClusterOf(i))
                /\ IsSmallestId(roster[i].dedup_cluster_id, InputComponent({i}, D))

\* A cluster of three records with distinct ids whose smallest id is not the
\* first member's.
C4_Witness ==
    /\ pc = "done"
    /\ \E j \in DOMAIN clusters :
          /\ Len(clusters[j].members) = 3
          /\ record_to_cluster[clusters[j].members[1]]
                # roster_df[clusters[j].members[1]].provider_id
          /\ \A x, y \in Records : x # y => roster_df[x].provider_id # roster_df[y].provider_id

\* C5. The canonical assignment is total: every input record gets a
\* dedup_cluster_id, its own provider_id when its cluster is a singleton and
\* the smallest provider_id of its cluster otherwise; the returned table
\* carries it for every row.
C5_TotalAssignment ==
    /\ Clustered =>
          /\ DOMAIN record_to_cluster = Records
          /\ DOMAIN roster = Records
          /\ \A i \in Records :
                /\ "dedup_cluster_id" \in DOMAIN roster[i]
                /\ roster[i].dedup_cluster_id = record_to_cluster[i]
                /\ ClusterOf(i) = {i} => record_to_cluster[i] = roster_df[i].provider_id
                /\ ClusterOf(i) # {i} => IsSmallestId(record_to_cluster[i], ClusterOf(i))
    /\ pc = "done" =>
          /\ DOMAIN result[2] = Records
          /\ \A i \in Records : result[2][i].dedup_cluster_id = record_to_cluster[i]

\* A run returns with a singleton that keeps its own id although a merged
\* cluster has a smaller one.
C5_Witness ==
    /\ pc = "done"
    /\ \E i, k \in Records :
          /\ ClusterOf(i) = {i}
          /\ Cardinality(ClusterOf(k)) = 2
          /\ record_to_cluster[i] = roster_df[i].provider_id
          /\ StrLess(record_to_cluster[k], record_to_cluster[i])

MatchClasses == { "definite", "possible", "nonmatch" }

\* pairs_df exists: the scored pairs have been sorted and classified.
Classified == pc \in {"union", "return", "done"}

\* C6. Classification is total and three-way: with threshold_definite >
\* threshold_possible, a row is 'definite' iff score >= threshold_definite,
\* 'possible' iff threshold_possible <= score < threshold_definite and
\* 'nonmatch' iff score < threshold_possible; every scored pair has exactly
\* one row and one class.
C6_Classification ==
    threshold_definite > threshold_possible =>
        /\ \A k \in DOMAIN pairs_df :
              LET sc == pairs_df[k].score
                  td == float_div(threshold_definite, 10)
                  tp == float_div(threshold_possible, 10)
                  cls == pairs_df[k].match_class
              IN  /\ cls \in MatchClasses
                  /\ cls = "definite" <=> ~FloatBelow(sc, td)
                  /\ cls = "possible" <=> (~FloatBelow(sc, tp) /\ FloatBelow(sc, td))
                  /\ cls = "nonmatch" <=> FloatBelow(sc, tp)
        /\ Classified =>
              \A c \in candidates : Cardinality(RowsOf(c[1], c[2])) = 1

\* Under thresholds other than the defaults, a pair whose score equals
\* threshold_possible exactly is classified 'possible'.
C6_Witness ==
    /\ pc = "done"
    /\ threshold_definite # default_threshold_definite
    /\ threshold_possible # default_threshold_possible
    /\ \E k \in DOMAIN pairs_df :
          /\ pairs_df[k].score = float_div(threshold_possible, 10)
          /\ pairs_df[k].match_class = "possible"

Flag(b) == IF b THEN 1 ELSE 0

BothNonEmpty(x, y) == x # <<>> /\ y # <<>>

\* The weighted sum of the signal table as a rational number num/den, with
\* conflict the NPI-conflict condition; sim = sn/sd, name overlap = tn/td,
\* address overlap = an/ad.
SignalSum(ra, rb, conflict) ==
    LET sim == SimFrac(ra.name_norm, rb.name_norm)
        tok == Jaccard(TokenSet(ra.name_norm), TokenSet(rb.name_norm))
        adr == Jaccard(TokenSet(ra.addr_norm), TokenSet(rb.addr_norm))
        den == sim[2] * tok[2] * adr[2]
        fixed ==
            60 * Flag(BothNonEmpty(ra.npi_norm, rb.npi_norm) /\ ra.npi_norm = rb.npi_norm)
            + 50 * Flag(/\ BothNonEmpty(ra.license_state_norm, rb.license_state_norm)
                        /\ BothNonEmpty(ra.license_norm, rb.license_norm)
                        /\ ra.license_state_norm = rb.license_state_norm
                        /\ ra.license_norm = rb.license_norm)
            + 15 * Flag(BothNonEmpty(ra.phone_last4, rb.phone_last4)
                        /\ ra.phone_last4 = rb.phone_last4)
            + 6 * Flag(BothNonEmpty(ra.tax_norm, rb.tax_norm) /\ ra.tax_norm = rb.tax_norm)
            - 40 * Flag(conflict)
    IN  [ num |-> fixed * den + 30 * sim[1] * tok[2] * adr[2]
                    + 10 * tok[1] * sim[2] * adr[2] + 8 * adr[1] * sim[2] * tok[2],
          den |-> 10 * den ]

NpisDiffer(ra, rb) ==
    BothNonEmpty(ra.npi_norm, rb.npi_norm) /\ ra.npi_norm # rb.npi_norm

NeitherNan(ra, rb) == ra.npi_norm # StrNan /\ rb.npi_norm # StrNan

\* The score of the row, a float, is the sum up to the rounding of
\* floating-point arithmetic.
ScoreIs(row, sum) == NearSum(row.score, sum.num, sum.den)

\* C7 as stated: the score of every scored pair is the weighted sum with
\* -4.0 whenever both NPIs are non-empty and different.
C7_Original ==
    \A k \in DOMAIN pair_data :
        LET ra == roster[pair_data[k].idx_a]
            rb == roster[pair_data[k].idx_b]
        IN  ScoreIs(pair_data[k], SignalSum(ra, rb, NpisDiffer(ra, rb)))

\* C7. The score of every scored pair is the weighted sum +6.0 (NPIs
\* non-empty and equal) +5.0 (license state and number non-empty and equal)
\* +3.0 x name similarity +1.0 x name token overlap +1.5 (phone last-4
\* non-empty and equal) +0.8 x address token overlap +0.6 (taxonomy non-empty
\* and equal) -4.0 (NPIs non-empty, different and neither the string 'nan'),
\* and nothing else.
C7_WeightedSum ==
    \A k \in DOMAIN pair_data :
        LET ra == roster[pair_data[k].idx_a]
            rb == roster[pair_data[k].idx_b]
        IN  ScoreIs(pair_data[k],
                    SignalSum(ra, rb, NpisDiffer(ra, rb) /\ NeitherNan(ra, rb)))

\* A scored pair with a license, phone and taxonomy match, an NPI conflict,
\* and name similarity and address overlap strictly between 0 and 1.
C7_Witness ==
    /\ pc = "done"
    /\ \E k \in DOMAIN pair_data :
          LET ra == roster[pair_data[k].idx_a]
              rb == roster[pair_data[k].idx_b]
              sim == SimFrac(ra.name_norm, rb.name_norm)
              adr == Jaccard(TokenSet(ra.addr_norm), TokenSet(rb.addr_norm))
          IN  /\ pair_data[k].reasons = << "lic_eq", "ph4_eq", "npi_conflict" >>
              /\ BothNonEmpty(ra.tax_norm, rb.tax_norm) /\ ra.tax_norm = rb.tax_norm
              /\ 0 < sim[1] /\ sim[1] < sim[2]
              /\ 0 < adr[1] /\ adr[1] < adr[2]

\* Scenario 3: identical normalized names and addresses, different non-empty
\* NPIs, and no license, phone or taxonomy match.
Scenario3(ra, rb) ==
    /\ ra.name_norm = rb.name_norm
    /\ ra.addr_norm = rb.addr_norm
    /\ NpisDiffer(ra, rb)
    /\ ~(/\ BothNonEmpty(ra.license_state_norm, rb.license_state_norm)
         /\ BothNonEmpty(ra.license_norm, rb.license_norm)
         /\ ra.license_state_norm = rb.license_state_norm
         /\ ra.license_norm = rb.license_norm)
    /\ ~(BothNonEmpty(ra.phone_last4, rb.phone_last4) /\ ra.phone_last4 = rb.phone_last4)
    /\ ~(BothNonEmpty(ra.tax_norm, rb.tax_norm) /\ ra.tax_norm = rb.tax_norm)

\* C8 as stated: a scenario-3 pair scores 3.0 + 0.8 - 4.0 = -0.2.
C8_Original ==
    \A k \in DOMAIN pair_data :
        Scenario3(roster[pair_data[k].idx_a], roster[pair_data[k].idx_b]) =>
            NearSum(pair_data[k].score, -2, 10)

\* C8. A scenario-3 pair neither of whose NPIs is the string 'nan' scores
\* 3.0 + 1.0 + 0.8 - 4.0 = 0.8: identical names also have name token
\* overlap 1.0.
C8_Scenario3Score ==
    \A k \in DOMAIN pair_data :
        LET ra == roster[pair_data[k].idx_a]
            rb == roster[pair_data[k].idx_b]
        IN  Scenario3(ra, rb) /\ NeitherNan(ra, rb) =>
                NearSum(pair_data[k].score, 8, 10)

\* A scored scenario-3 pair with two different spellings of one name and one
\* non-empty address; its score, summed in floating point, is
\* 0.7999999999999998, the float just below 0.8.
C8_Witness ==
    /\ pc = "done"
    /\ \E k \in DOMAIN pair_data :
          LET ra == roster[pair_data[k].idx_a]
              rb == roster[pair_data[k].idx_b]
          IN  /\ Scenario3(ra, rb) /\ NeitherNan(ra, rb)
              /\ ra.full_name # rb.full_name
              /\ ra.addr_norm # <<>>
              /\ pair_data[k].reasons = << "npi_conflict" >>
              /\ FloatBelow(pair_data[k].score, float_div(8, 10))

DefaultThresholds ==
    /\ threshold_definite = default_threshold_definite
    /\ threshold_possible = default_threshold_possible

\* Row k of pairs_df is 'nonmatch' and its two records, the only ones of the
\* table, have never been unioned.
NonmatchNotUnioned(k) ==
    /\ pairs_df[k].match_class = "nonmatch"
    /\ Records = {pairs_df[k].idx_a, pairs_df[k].idx_b} =>
          /\ RootOf(pairs_df[k].idx_a) # RootOf(pairs_df[k].idx_b)
          /\ Clustered => pairs_df[k].idx_b \notin ClusterOf(pairs_df[k].idx_a)

\* C9 as stated: under the default thresholds every scenario-3 pair is
\* 'nonmatch' and never unioned.
C9_Original ==
    DefaultThresholds =>
        \A k \in DOMAIN pairs_df :
            Scenario3(roster[pairs_df[k].idx_a], roster[pairs_df[k].idx_b]) =>
                NonmatchNotUnioned(k)

\* C9. Under the default thresholds every scenario-3 pair neither of whose
\* NPIs is the string 'nan' is classified 'nonmatch' and is never unioned.
C9_Scenario3Class ==
    DefaultThresholds =>
        \A k \in DOMAIN pairs_df :
            LET ra == roster[pairs_df[k].idx_a]
                rb == roster[pairs_df[k].idx_b]
            IN  Scenario3(ra, rb) /\ NeitherNan(ra, rb) => NonmatchNotUnioned(k)

\* A run over a scenario-3 pair with a non-empty name returns with the pair
\* 'nonmatch' and its records in two clusters.
C9_Witness ==
    /\ pc = "done"
    /\ DefaultThresholds
    /\ \E k \in DOMAIN pairs_df :
          LET ra == roster[pairs_df[k].idx_a]
              rb == roster[pairs_df[k].idx_b]
          IN  /\ Scenario3(ra, rb) /\ NeitherNan(ra, rb)
              /\ ra.name_norm # <<>>
              /\ pairs_df[k].match_class = "nonmatch"
              /\ Len(clusters) = 2

\* Scenario 2: the last-name prefix is the only block the two records share,
\* name similarity is below 0.3, and there is no NPI, license, phone last-4
\* or taxonomy equality.
Scenario2(a, b) ==
    LET ra == roster[a]
        rb == roster[b]
        sim == seq_ratio(ra.name_norm, rb.name_norm)
        shared == { key \in DOMAIN blocks : {a, b} \subseteq Range(blocks[key]) }
    IN  /\ shared # {}
        /\ \A key \in shared : SubSeq(key, 1, Len(KeyLNP)) = KeyLNP
        /\ FloatCmpFrac(sim, 3, 10) < 0
        /\ ~(BothNonEmpty(ra.npi_norm, rb.npi_norm) /\ ra.npi_norm = rb.npi_norm)
        /\ ~(/\ BothNonEmpty(ra.license_state_norm, rb.license_state_norm)
             /\ BothNonEmpty(ra.license_norm, rb.license_norm)
             /\ ra.license_state_norm = rb.license_state_norm
             /\ ra.license_norm = rb.license_norm)
        /\ ~(BothNonEmpty(ra.phone_last4, rb.phone_last4) /\ ra.phone_last4 = rb.phone_last4)
        /\ ~(BothNonEmpty(ra.tax_norm, rb.tax_norm) /\ ra.tax_norm = rb.tax_norm)

\* C10. Scenario 2: under the default thresholds every scenario-2 candidate
\* pair scores below threshold_possible (3.0), is classified 'nonmatch' and
\* is never unioned, whatever its name token overlap and address token
\* overlap (two empty addresses included).
C10_Scenario2 ==
    DefaultThresholds =>
        /\ \A k \in DOMAIN pair_data :
              Scenario2(pair_data[k].idx_a, pair_data[k].idx_b) =>
                  FloatCmpFrac(pair_data[k].score, default_threshold_possible, 10) < 0
        /\ \A k \in DOMAIN pairs_df :
              Scenario2(pairs_df[k].idx_a, pairs_df[k].idx_b) => NonmatchNotUnioned(k)

\* A run over a scenario-2 pair with one non-empty address on both records
\* (address overlap 1.0) returns with the pair 'nonmatch'.
C10_Witness ==
    /\ pc = "done"
    /\ DefaultThresholds
    /\ \E k \in DOMAIN pairs_df :
          /\ Scenario2(pairs_df[k].idx_a, pairs_df[k].idx_b)
          /\ roster[pairs_df[k].idx_a].addr_norm # <<>>
          /\ roster[pairs_df[k].idx_a].addr_norm = roster[pairs_df[k].idx_b].addr_norm
          /\ pairs_df[k].match_class = "nonmatch"
          /\ Len(clusters) = 2

\* The table has been normalized: roster has a row for every record.
Normalized == pc \notin {"normalize", "failed"} \/ (pc = "failed" /\ roster # NoTable)

\* Scenario 1: equal non-empty NPIs and equal non-empty license state and
\* number.
Scenario1(ra, rb) ==
    /\ BothNonEmpty(ra.npi_norm, rb.npi_norm) /\ ra.npi_norm = rb.npi_norm
    /\ BothNonEmpty(ra.license_state_norm, rb.license_state_norm)
    /\ BothNonEmpty(ra.license_norm, rb.license_norm)
    /\ ra.license_state_norm = rb.license_state_norm
    /\ ra.license_norm = rb.license_norm

\* The scenario-1 pairs of records of the table.
Scenario1Pairs ==
    { c \in Records \X Records : c[1] < c[2] /\ Scenario1(roster[c[1]], roster[c[2]]) }

\* The smaller, in str order, of the provider_ids of records a and b.
SmallerId(a, b) ==
    IF StrLess(roster_df[b].provider_id, roster_df[a].provider_id)
    THEN roster_df[b].provider_id
    ELSE roster_df[a].provider_id

\* Every scenario-1 pair is a candidate, scores at least 11.0, is classified
\* 'definite' under the default thresholds and ends in one cluster.
Scenario1Merged ==
    /\ pc \notin {"normalize", "block", "failed"} => Scenario1Pairs \subseteq candidates
    /\ \A k \in DOMAIN pair_data :
          << pair_data[k].idx_a, pair_data[k].idx_b >> \in Scenario1Pairs =>
              FloatCmpFrac(pair_data[k].score, 11, 1) >= 0
    /\ DefaultThresholds =>
          \A k \in DOMAIN pairs_df :
              << pairs_df[k].idx_a, pairs_df[k].idx_b >> \in Scenario1Pairs =>
                  pairs_df[k].match_class = "definite"
    /\ Clustered =>
          \A c \in Scenario1Pairs :
              /\ c[2] \in ClusterOf(c[1])
              /\ record_to_cluster[c[1]] = record_to_cluster[c[2]]

\* C11 as stated: every scenario-1 pair scores at least 11.0, is 'definite',
\* ends in one cluster, and both records get the smaller of their two
\* provider_ids.
C11_Original ==
    /\ Scenario1Merged
    /\ Clustered =>
          \A c \in Scenario1Pairs :
              /\ roster[c[1]].dedup_cluster_id = SmallerId(c[1], c[2])
              /\ roster[c[2]].dedup_cluster_id = SmallerId(c[1], c[2])

\* C11. Scenario 1: every pair of records with equal non-empty NPI and equal
\* non-empty license state and number is a candidate, scores at least 11.0
\* whatever the names, is classified 'definite' under the default
\* thresholds and ends in one cluster; both records get the smallest
\* provider_id of that cluster, which is the smaller of their two
\* provider_ids when the cluster holds no third record.
C11_Scenario1 ==
    /\ Scenario1Merged
    /\ Clustered =>
          \A c \in Scenario1Pairs :
              /\ IsSmallestId(roster[c[1]].dedup_cluster_id, ClusterOf(c[1]))
              /\ roster[c[2]].dedup_cluster_id = roster[c[1]].dedup_cluster_id
              /\ ClusterOf(c[1]) = {c[1], c[2]} =>
                    roster[c[1]].dedup_cluster_id = SmallerId(c[1], c[2])

\* A run returns with a scenario-1 pair of different names alone in its
\* cluster, both records under the second record's smaller provider_id.
C11_Witness ==
    /\ pc = "done"
    /\ \E c \in Scenario1Pairs :
          /\ roster[c[1]].name_norm # roster[c[2]].name_norm
          /\ ClusterOf(c[1]) = {c[1], c[2]}
          /\ Cardinality(Records) = 3
          /\ roster[c[1]].dedup_cluster_id = roster_df[c[2]].provider_id
          /\ roster_df[c[1]].provider_id # roster_df[c[2]].provider_id

\* The seven positive signals of a pair of normalized records, each a
\* float in [0, 1], and the NPI-conflict condition.
PositiveSignals(ra, rb) ==
    << float_of_int(Flag(BothNonEmpty(ra.npi_norm, rb.npi_norm) /\ ra.npi_norm = rb.npi_norm)),
       float_of_int(Flag(/\ BothNonEmpty(ra.license_state_norm, rb.license_state_norm)
                 /\ BothNonEmpty(ra.license_norm, rb.license_norm)
                 /\ ra.license_state_norm = rb.license_state_norm
                 /\ ra.license_norm = rb.license_norm)),
       seq_ratio(ra.name_norm, rb.name_norm),
       token_overlap(ra.name_norm, rb.name_norm),
       float_of_int(Flag(BothNonEmpty(ra.phone_last4, rb.phone_last4)
                 /\ ra.phone_last4 = rb.phone_last4)),
       token_overlap(ra.addr_norm, rb.addr_norm),
       float_of_int(Flag(BothNonEmpty(ra.tax_norm, rb.tax_norm) /\ ra.tax_norm = rb.tax_norm)) >>

\* The two-row tables of SpecSignals, normalized, with their signals, their
\* score and whether their pair is a candidate.
FactsOf(t) ==
    LET tbl == (0 :> normalize_row(t[1])) @@ (1 :> normalize_row(t[2]))
    IN  [ signals |-> PositiveSignals(tbl[0], tbl[1]),
          conflict |-> NpisDiffer(tbl[0], tbl[1]) /\ NeitherNan(tbl[0], tbl[1]),
          score |-> score_pair(tbl, 0, 1).score,
          candidate |-> gen_candidates(build_blocks(tbl, 0, NoTable)) # {} ]

\* In how many of the six groups of cells (name, NPI, license, phone,
\* address, taxonomy) two raw rows differ.
CellGroupsDiffering(r, q) ==
    Flag(r.full_name # q.full_name) + Flag(r.npi # q.npi)
    + Flag(r.license_state # q.license_state \/ r.license_number # q.license_number)
    + Flag(r.practice_phone # q.practice_phone)
    + Flag(\/ r.practice_address_line1 # q.practice_address_line1
           \/ r.practice_city # q.practice_city
           \/ r.practice_state # q.practice_state
           \/ r.practice_zip # q.practice_zip)
    + Flag(r.taxonomy_code # q.taxonomy_code)

\* The tables of SignalTables that differ from t in one group of cells of
\* one row.
Variations(t) ==
    { u \in SignalTables :
        CellGroupsDiffering(t[1], u[1]) + CellGroupsDiffering(t[2], u[2]) = 1 }

\* Signals y are signals x with one or more positive signals raised and
\* none lowered.
Raised(x, y) ==
    /\ \A k \in DOMAIN x : ~FloatBelow(y[k], x[k])
    /\ \E k \in DOMAIN x : FloatBelow(x[k], y[k])

\* Signals y are signals x with exactly one positive signal raised.
RaisedOne(x, y) ==
    \E k \in DOMAIN x :
        FloatBelow(x[k], y[k]) /\ \A j \in DOMAIN x \ {k} : x[j] = y[j]

\* C12. Monotonicity of the score: when a run has returned, the scored pair
\* of its table is compared with the candidate pair of every table that
\* differs in one group of cells; if the other pair has the same
\* NPI-conflict condition and the same positive signals except that one (or
\* more) of them is raised - an equality turned on, or a higher name
\* similarity, name token overlap or address token overlap - then the other
\* pair's score is not lower.
C12_Monotonic ==
    pc = "done" =>
        \A k \in DOMAIN pair_data :
            LET ra == roster[pair_data[k].idx_a]
                rb == roster[pair_data[k].idx_b]
                t == << roster_df[pair_data[k].idx_a], roster_df[pair_data[k].idx_b] >>
                x == PositiveSignals(ra, rb)
                conflict == NpisDiffer(ra, rb) /\ NeitherNan(ra, rb)
            IN  \A u \in Variations(t) :
                    LET f == FactsOf(u)
                    IN  f.candidate /\ f.conflict = conflict /\ Raised(x, f.signals)
                            => ~FloatBelow(f.score, pair_data[k].score)

\* The scored pair has a variation with the same name token overlap and a
\* strictly higher name similarity, and the variation's score is higher.
C12_Witness ==
    /\ pc = "done"
    /\ \E k \in DOMAIN pair_data :
          LET ra == roster[pair_data[k].idx_a]
              rb == roster[pair_data[k].idx_b]
              t == << roster_df[pair_data[k].idx_a], roster_df[pair_data[k].idx_b] >>
              x == PositiveSignals(ra, rb)
              conflict == NpisDiffer(ra, rb) /\ NeitherNan(ra, rb)
          IN  \E u \in Variations(t) :
                  LET f == FactsOf(u)
                  IN  /\ f.candidate /\ f.conflict = conflict
                      /\ RaisedOne(x, f.signals)
                      /\ FloatBelow(x[3], f.signals[3])
                      /\ FloatBelow(pair_data[k].score, f.score)

\* C13. normalize_name is idempotent: normalizing the normalized name of any
\* record again returns it unchanged (names with an underscore next to an
\* honorific included).
C13_Idempotent ==
    \A i \in DOMAIN roster : normalize_name(roster[i].name_norm) = roster[i].name_norm

\* The run ended because scoring a candidate pair raised.
ScoringFailed ==
    pc = "failed" /\ error = "TypeError: expected string or bytes-like object"

\* C16. Fail-soft scoring: a failure while scoring one candidate pair never
\* ends the run; the pair is skipped and the run goes on to return.
C16_FailSoft == ~ScoringFailed

\* C17. Fail-fast on structure: when the column provider_id is absent the
\* run fails at once, before blocking, scoring or clustering has done any
\* work, with an error that names provider_id.
C17_FailFast ==
    LabelProviderId \notin Range(columns) =>
        /\ pc \in {"normalize", "failed"}
        /\ pc = "failed" => error = KeyError(LabelProviderId)
        /\ blocks = NoTable /\ candidates = {} /\ pair_data = << >> /\ p = NoTable

\* C18. A table that has provider_id but lacks another record field is
\* processed without raising on account of that field.
C18_AbsentFieldTolerated ==
    LabelProviderId \in Range(columns) /\ missing_columns(columns) # << >> =>
        ~(pc = "failed" /\ error = KeyError(Head(missing_columns(columns))))

\* x is a str over the characters of the model.
IsStr(x) == DOMAIN x = 1..Len(x) /\ \A k \in DOMAIN x : x[k] \in Range(Alphabet)

\* A raw cell that is missing (NaN, None), empty or blank.
MissingOrBlank(cell) == cell \in {NaN, None} \/ \A k \in DOMAIN cell : cell[k] = " "

DerivedColumns ==
    { "name_norm", "npi_norm", "license_norm", "license_state_norm", "phone_norm",
      "phone_last4", "last_pref", "tax_norm", "addr_norm" }

\* C19. Normalization is total: for a table that has the columns, lines
\* 66-75 do not raise, every derived column of every record is a str, and
\* a raw cell that is missing (NaN, None), empty or blank normalizes to the
\* empty string (the address when all its four cells are such).
C19_NormalizationTotal ==
    missing_columns(columns) = << >> /\ pc # "normalize" =>
        /\ DOMAIN roster = Records
        /\ \A i \in Records :
              LET raw == roster_df[i]
                  r == roster[i]
              IN  /\ \A c \in DerivedColumns : IsStr(r[c])
                  /\ MissingOrBlank(raw.full_name) => r.name_norm = << >> /\ r.last_pref = << >>
                  /\ MissingOrBlank(raw.npi) => r.npi_norm = << >>
                  /\ MissingOrBlank(raw.license_number) => r.license_norm = << >>
                  /\ MissingOrBlank(raw.license_state) => r.license_state_norm = << >>
                  /\ MissingOrBlank(raw.practice_phone) =>
                        r.phone_norm = << >> /\ r.phone_last4 = << >>
                  /\ MissingOrBlank(raw.taxonomy_code) => r.tax_norm = << >>
                  /\ (/\ MissingOrBlank(raw.practice_address_line1)
                      /\ MissingOrBlank(raw.practice_city)
                      /\ MissingOrBlank(raw.practice_state)
                      /\ MissingOrBlank(raw.practice_zip)) => r.addr_norm = << >>

\* A normalized table with a record whose name is NaN, whose NPI is None
\* and whose taxonomy is blank, next to a record with a name and an NPI.
C19_Witness ==
    /\ pc = "block"
    /\ \E i, j \in Records :
          /\ roster_df[i].full_name = NaN /\ roster_df[i].npi = None
          /\ roster_df[i].taxonomy_code = Space
          /\ roster[i].name_norm = << >> /\ roster[i].npi_norm = << >>
          /\ roster[i].tax_norm = << >>
          /\ roster[j].name_norm # << >> /\ roster[j].npi_norm # << >>

\* C20. The run completes for every table that has the columns: it never
\* fails, and when the candidate set is empty it returns an empty pairs
\* table, every record under its own provider_id and an empty cluster list.
C20_Completes ==
    columns = AllColumns =>
        /\ pc # "failed"
        /\ pc = "done" /\ candidates = {} =>
              /\ result[1] = << >>
              /\ \A i \in Records :
                    result[2][i].dedup_cluster_id = roster_df[i].provider_id
              /\ result[3] = << >>

\* The blocks and the candidate set have been built.
Blocked == pc \notin {"normalize", "block"} /\ roster # NoTable

KeyPrefix(key) == SubSeq(key, 1, Len(KeyNPI))

\* Record r has the non-empty value that block key names.
HasKeyValue(r, key) ==
    \/ /\ KeyPrefix(key) = KeyNPI
       /\ r.npi_norm # << >> /\ key = KeyNPI \o r.npi_norm
    \/ /\ KeyPrefix(key) = KeyLIC
       /\ r.license_state_norm # << >> /\ r.license_norm # << >>
       /\ key = KeyLIC \o r.license_state_norm \o Sep \o r.license_norm
    \/ /\ KeyPrefix(key) = KeyLNP
       /\ r.last_pref # << >> /\ key = KeyLNP \o r.last_pref
    \/ /\ KeyPrefix(key) = KeyPH4
       /\ r.phone_last4 # << >> /\ key = KeyPH4 \o r.phone_last4
    \/ /\ KeyPrefix(key) = KeyTAX
       /\ r.tax_norm # << >> /\ key = KeyTAX \o r.tax_norm

\* C14. A record is in a block only when its value for that block's key is
\* non-empty (license: state and number both; phone: a non-empty last-4),
\* so a candidate pair always rests on a key for which both records have a
\* value: two records that both lack a field are never paired on account
\* of that field.
C14_NonEmptyKeys ==
    Blocked =>
        /\ \A key \in DOMAIN blocks :
              \A j \in DOMAIN blocks[key] : HasKeyValue(roster[blocks[key][j]], key)
        /\ \A c \in candidates :
              \E key \in DOMAIN blocks :
                  /\ {c[1], c[2]} \subseteq Range(blocks[key])
                  /\ HasKeyValue(roster[c[1]], key) /\ HasKeyValue(roster[c[2]], key)

\* Two records that both lack NPI, license, phone and taxonomy and have
\* different last names are each in a block of their own and are not a
\* candidate pair.
C14_Witness ==
    /\ pc = "score"
    /\ candidates = {}
    /\ Cardinality(DOMAIN blocks) = 2
    /\ \A i \in Records :
          /\ roster[i].npi_norm = << >> /\ roster[i].license_norm = << >>
          /\ roster[i].phone_last4 = << >> /\ roster[i].tax_norm = << >>

SameNonEmpty(x, y) == x # << >> /\ x = y

\* Records ra and rb have the same non-empty value for one of the five
\* blocking keys; nanBlocks tells whether the NPI 'nan' counts as a value.
SharesKey(ra, rb, nanBlocks) ==
    \/ SameNonEmpty(ra.npi_norm, rb.npi_norm) /\ (nanBlocks \/ ra.npi_norm # StrNan)
    \/ /\ SameNonEmpty(ra.license_state_norm, rb.license_state_norm)
       /\ SameNonEmpty(ra.license_norm, rb.license_norm)
    \/ SameNonEmpty(ra.last_pref, rb.last_pref)
    \/ SameNonEmpty(ra.phone_last4, rb.phone_last4)
    \/ SameNonEmpty(ra.tax_norm, rb.tax_norm)

SharingPairs(nanBlocks) ==
    { c \in Records \X Records :
        c[1] < c[2] /\ SharesKey(roster[c[1]], roster[c[2]], nanBlocks) }

\* C15 as stated: the candidate set is exactly the set of pairs a < b that
\* share one of the five blocking keys with a non-empty value.
C15_Original == Blocked => candidates = SharingPairs(TRUE)

\* C15. The candidate set is exactly the set of pairs (a, b), a < b, of
\* records that share one of the five blocking keys with a non-empty value
\* which, for the NPI, is not the string 'nan': one shared key suffices, and
\* no pair is in the set in both orders or with itself.
C15_Candidates ==
    Blocked =>
        /\ candidates = SharingPairs(FALSE)
        /\ \A c \in candidates : c[1] < c[2] /\ << c[2], c[1] >> \notin candidates

\* The two records of the table share the taxonomy and no other key, and
\* their pair is the candidate set.
C15_Witness ==
    /\ pc = "done"
    /\ candidates = { << 0, 1 >> }
    /\ Cardinality({ key \in DOMAIN blocks : Len(blocks[key]) > 1 }) = 1
    /\ SameNonEmpty(roster[0].tax_norm, roster[1].tax_norm)

\* C21. The candidate-pairs table is sorted by score in non-increasing
\* order - of every two consecutive rows the earlier one's score is >= the
\* later one's - and has exactly one row per candidate pair; dedupe returns
\* that table.
C21_SortedPairs ==
    /\ Classified =>
          /\ \A k \in 1..(Len(pairs_df) - 1) :
                ~FloatBelow(pairs_df[k].score, pairs_df[k + 1].score)
          /\ \A c \in candidates :
                Cardinality({ k \in DOMAIN pairs_df :
                                pairs_df[k].idx_a = c[1] /\ pairs_df[k].idx_b = c[2] }) = 1
          /\ \A k \in DOMAIN pairs_df :
                << pairs_df[k].idx_a, pairs_df[k].idx_b >> \in candidates
    /\ pc = "done" => result[1] = pairs_df

\* A run returns a table of three rows whose pairs were scored in
\* increasing order of score and whose first row scores more than its last.
C21_Witness ==
    /\ pc = "done"
    /\ Len(result[1]) = 3
    /\ FloatBelow(result[1][3].score, result[1][1].score)
    /\ FloatBelow(pair_data[1].score, pair_data[2].score)
    /\ FloatBelow(pair_data[2].score, pair_data[3].score)

\* C22. The cluster list dedupe returns holds exactly the clusters with
\* more than one member, each once: no group is a singleton, every group
\* is the cluster of its members, and every record that shares its cluster
\* with another record is in exactly one group, once.
C22_ClusterList ==
    pc = "done" =>
        /\ \A j \in DOMAIN result[3] :
              /\ Len(result[3][j]) > 1
              /\ \A k \in DOMAIN result[3][j] :
                    ClusterOf(result[3][j][k]) = Range(result[3][j])
        /\ \A i \in Records :
              Cardinality({ s \in UNION { {j} \X DOMAIN result[3][j] : j \in DOMAIN result[3] } :
                              result[3][s[1]][s[2]] = i })
                  = (IF ClusterOf(i) # {i} THEN 1 ELSE 0)

\* A run over three records returns one group of two and leaves the third
\* record, a singleton, out of the list.
C22_Witness ==
    /\ pc = "done"
    /\ Cardinality(Records) = 3
    /\ Len(result[3]) = 1
    /\ Len(result[3][1]) = 2
    /\ \E i \in Records : ClusterOf(i) = {i}

\* The two string pairs whose token overlap line 106 and line 109 take for
\* the k-th scored pair.
OverlapArgs(k) ==
    LET ra == roster[pair_data[k].idx_a]
        rb == roster[pair_data[k].idx_b]
    IN  { << ra.name_norm, rb.name_norm >>, << ra.addr_norm, rb.addr_norm >> }

\* C23. token_overlap(a, b) is |A intersect B| / |A union B| over the sets
\* of whitespace-separated tokens of a and b, is 1.0 when both sets are
\* empty, is symmetric and lies in [0, 1]; the overlaps a scored pair
\* records are these values rounded to three places.
C23_TokenOverlap ==
    pc = "done" =>
        \A k \in DOMAIN pair_data :
            /\ \A ab \in OverlapArgs(k) :
                  LET v == token_overlap(ab[1], ab[2])
                      A == TokenSet(ab[1])
                      B == TokenSet(ab[2])
                      q == Jaccard(A, B)
                  IN  /\ NearQuotient(v, q[1], q[2])
                      /\ (A = {} /\ B = {}) => FloatCmpFrac(v, 1, 1) = 0
                      /\ v = token_overlap(ab[2], ab[1])
                      /\ FloatCmpFrac(v, 0, 1) >= 0 /\ FloatCmpFrac(v, 1, 1) <= 0
            /\ LET ra == roster[pair_data[k].idx_a]
                   rb == roster[pair_data[k].idx_b]
                   tn == Jaccard(TokenSet(ra.name_norm), TokenSet(rb.name_norm))
                   ta == Jaccard(TokenSet(ra.addr_norm), TokenSet(rb.addr_norm))
               IN  /\ NearQuotient(pair_data[k].tok_ov, Thousandths(tn), 1000)
                   /\ NearQuotient(pair_data[k].addr_ov, Thousandths(ta), 1000)

\* A scored pair whose names share one token of three and whose addresses
\* both have no token at all.
C23_Witness ==
    /\ pc = "done"
    /\ \E k \in DOMAIN pair_data :
          LET ra == roster[pair_data[k].idx_a]
              rb == roster[pair_data[k].idx_b]
          IN  /\ Jaccard(TokenSet(ra.name_norm), TokenSet(rb.name_norm)) = << 1, 3 >>
              /\ token_overlap(ra.name_norm, rb.name_norm) = float_div(1, 3)
              /\ TokenSet(ra.addr_norm) = {} /\ TokenSet(rb.addr_norm) = {}
              /\ token_overlap(ra.addr_norm, rb.addr_norm) = float_of_int(1)

\* C24. The output of normalize_name never contains one of the honorific or
\* suffix words as a whole whitespace-delimited token: no token of the
\* normalized name of any record is one of them.
C24_NoHonorificToken ==
    \A i \in DOMAIN roster :
        \A t \in TokenSet(roster[i].name_norm) : t \notin Honorifics

\* Every candidate pair has been scored and has its row, with its class, in
\* the sorted table.
AllScoredAndClassified ==
    /\ candidates \ Scored = {}
    /\ Len(pair_data) = Cardinality(candidates)
    /\ { << pairs_df[k].idx_a, pairs_df[k].idx_b >> : k \in DOMAIN pairs_df } = candidates
    /\ \A k \in DOMAIN pairs_df : pairs_df[k].match_class \in MatchClasses

\* C25. Scoring barrier: a step that applies a union is taken only when
\* every candidate pair has been scored and classified, and it leaves the
\* scores as they are; the disjoint-set structure is written by the
\* clustering steps alone (its creation at line 120, the unions of lines
\* 121-123 and the finds of line 126), never while a pair is unscored.
C25_ScoringBarrier ==
    [][ /\ (unioned' # unioned /\ unioned' > 0) =>
              /\ pc = "union" /\ AllScoredAndClassified
              /\ pair_data' = pair_data /\ pairs_df' = pairs_df
        /\ (p' # p) =>
              /\ candidates \ Scored = {}
              /\ pair_data' = pair_data
              /\ \/ pc = "score" /\ pc' = "union" /\ p' = UF(Cardinality(DOMAIN roster))
                 \/ pc = "union" /\ AllScoredAndClassified ]_vars

\* Three candidate pairs have been scored and classified, and the second
\* union has been applied to the structure.
C25_Witness ==
    /\ pc = "union"
    /\ Cardinality(candidates) = 3
    /\ Len(pairs_df) = 3
    /\ unioned = 2
    /\ p # UF(Cardinality(DOMAIN roster))

\* C26. dedupe leaves the caller's input table unchanged: no step of a run,
\* returning or failing, changes its rows, its columns or a cell value; the
\* derived columns and dedup_cluster_id go to the copy.
C26_InputUnchanged ==
    [][ roster_df' = roster_df /\ columns' = columns ]_vars

\* A run has returned; the input still has a missing name cell and none of
\* the added columns, while the copy has the cell filled and the columns
\* added.
C26_Witness ==
    /\ pc = "done"
    /\ \E i \in DOMAIN roster_df :
          /\ roster_df[i].full_name = NaN
          /\ roster[i].full_name = <<>>
          /\ DOMAIN roster_df[i] = Range(columns)
          /\ (DerivedColumns \cup {"dedup_cluster_id"}) \cap DOMAIN roster_df[i] = {}
          /\ (DerivedColumns \cup {"dedup_cluster_id"}) \subseteq DOMAIN roster[i]

\* The element reached from x by following parents k times in q.
RECURSIVE Climb(_, _, _)
Climb(q, x, k) == IF k = 0 THEN x ELSE Climb(q, q[x], k - 1)

\* q is a forest over its elements: every parent is an element, and the
\* parents of every element lead to a self-parented root.
Forest(q) ==
    /\ \E n \in 0..Cardinality(DOMAIN q) : DOMAIN q = 0..(n - 1)
    /\ \A x \in DOMAIN q : q[x] \in DOMAIN q
    /\ \A x \in DOMAIN q :
          \E k \in 0..(Cardinality(DOMAIN q) - 1) :
              LET r == Climb(q, x, k) IN q[r] = r

\* The root of x in the forest q.
TreeRoot(q, x) == Climb(q, x, Cardinality(DOMAIN q))

\* The elements that share a root with x in the forest q.
SetOf(q, x) == { y \in DOMAIN q : TreeRoot(q, y) = TreeRoot(q, x) }

\* The sets of the forest q: the elements grouped by root.
Partition(q) ==
    LET rs == { << x, TreeRoot(q, x) >> : x \in DOMAIN q }
    IN  { { w[1] : w \in { v \in rs : v[2] = r } } : r \in { w[2] : w \in rs } }

\* C27. After any sequence of union and find calls the parent array is a
\* forest: every entry is an element, and following parents from any
\* element reaches a self-parented root.  find(x) returns that root, and
\* the array it leaves is again a forest in which every element has the
\* root it had.
C27_Forest ==
    /\ Forest(p)
    /\ \A x \in DOMAIN p :
          LET f == find(p, x)
          IN  /\ f.root = TreeRoot(p, x)
              /\ f.p[f.root] = f.root
              /\ Forest(f.p)
              /\ DOMAIN f.p = DOMAIN p
              /\ \A y \in DOMAIN p : TreeRoot(f.p, y) = TreeRoot(p, y)

\* A forest of at least four elements with an element two steps or more
\* below its root, whose find compresses the path.
C27_Witness ==
    /\ pc = "uf"
    /\ Cardinality(DOMAIN p) >= 4
    /\ \E x \in DOMAIN p :
          /\ p[p[x]] # p[x]
          /\ find(p, x).p # p
          /\ find(p, x).p[x] = TreeRoot(p, x)

\* C28. union(a, b) merges exactly the two sets of a and b: afterwards a
\* and b share a root, the set of that root is the union of the two sets,
\* every element outside them keeps its set, and when a and b were already
\* in one set no set changes.
C28_UnionMerges ==
    Forest(p) =>
        LET before == Partition(p)
        IN  \A a \in DOMAIN p, b \in DOMAIN p :
                LET q == union(p, a, b)
                    Sa == CHOOSE S \in before : a \in S
                    Sb == CHOOSE S \in before : b \in S
                IN  /\ DOMAIN q = DOMAIN p
                    /\ \A x \in DOMAIN q : q[x] \in DOMAIN q
                    /\ \A x \in DOMAIN q : LET r == TreeRoot(q, x) IN q[r] = r
                    /\ find(q, a).root = find(q, b).root
                    /\ Partition(q) = (before \ { Sa, Sb }) \cup { Sa \cup Sb }
                    /\ Sa = Sb => Partition(q) = before

\* Earlier unions have left two sets of two elements or more, with a and b
\* not their roots, and an element in neither set; union(a, b) then merges
\* the two sets.
C28_Witness ==
    /\ pc = "uf"
    /\ \E a \in DOMAIN p, b \in DOMAIN p :
          /\ p[a] # a /\ p[b] # b
          /\ TreeRoot(p, a) # TreeRoot(p, b)
          /\ DOMAIN p \ (SetOf(p, a) \cup SetOf(p, b)) # {}
          /\ union(p, a, b) # p

\* The provider_ids of the input are pairwise distinct.
DistinctIds ==
    \A i \in DOMAIN roster_df, j \in DOMAIN roster_df :
        i # j => roster_df[i].provider_id # roster_df[j].provider_id

\* C29. When all provider_ids of the input are distinct, two records have
\* the same dedup_cluster_id if and only if they are in the same cluster,
\* and the dedup_cluster_id of every record is the provider_id of a member
\* of its cluster.
C29_FaithfulIds ==
    (Clustered /\ DistinctIds) =>
        \A i \in Records :
            /\ \A j \in Records :
                  (roster[i].dedup_cluster_id = roster[j].dedup_cluster_id)
                      <=> (j \in ClusterOf(i))
            /\ \E m \in ClusterOf(i) :
                  roster[i].dedup_cluster_id = roster_df[m].provider_id

\* A returned run over three records with distinct ids: two of them in one
\* cluster, the third, which has the smallest id of the table, on its own.
C29_Witness ==
    /\ pc = "done"
    /\ DistinctIds
    /\ Cardinality(Records) = 3
    /\ \E i \in Records :
          /\ ClusterOf(i) = {i}
          /\ \A j \in Records \ {i} :
                /\ StrLess(roster_df[i].provider_id, roster_df[j].provider_id)
                /\ ClusterOf(j) = Records \ {i}
                /\ roster[j].dedup_cluster_id # roster[i].dedup_cluster_id

\* License state and number of the two records are non-empty and equal.
LicenseEquality(ra, rb) ==
    /\ BothNonEmpty(ra.license_state_norm, rb.license_state_norm)
    /\ BothNonEmpty(ra.license_norm, rb.license_norm)
    /\ ra.license_state_norm = rb.license_state_norm
    /\ ra.license_norm = rb.license_norm

\* C30 as stated: under the default thresholds every candidate pair with
\* different non-empty NPIs and no license equality scores at most 2.9 and
\* is 'nonmatch' and never unioned directly, and a pair with different
\* non-empty NPIs is 'definite' only with license equality.
C30_Original ==
    DefaultThresholds =>
        \A k \in DOMAIN pairs_df :
            LET ra == roster[pairs_df[k].idx_a]
                rb == roster[pairs_df[k].idx_b]
            IN  NpisDiffer(ra, rb) =>
                  /\ ~LicenseEquality(ra, rb) =>
                        /\ FloatCmpFrac(pairs_df[k].score, 29, 10) <= 0
                        /\ NonmatchNotUnioned(k)
                  /\ pairs_df[k].match_class = "definite" => LicenseEquality(ra, rb)

\* C30. Under the default thresholds a candidate pair whose NPIs are both
\* non-empty, different and neither the string 'nan', and which has no
\* license equality, scores at most 2.9, is 'nonmatch' and is never unioned
\* directly; a pair with such conflicting NPIs is 'definite' only when
\* license state and number are equal.
C30_ConflictBound ==
    DefaultThresholds =>
        \A k \in DOMAIN pairs_df :
            LET ra == roster[pairs_df[k].idx_a]
                rb == roster[pairs_df[k].idx_b]
            IN  (NpisDiffer(ra, rb) /\ NeitherNan(ra, rb)) =>
                  /\ ~LicenseEquality(ra, rb) =>
                        /\ FloatCmpFrac(pairs_df[k].score, 29, 10) <= 0
                        /\ NonmatchNotUnioned(k)
                  /\ pairs_df[k].match_class = "definite" => LicenseEquality(ra, rb)

\* A returned run over a pair with conflicting NPIs and no license equality
\* in which every other signal is at its maximum: the score is
\* 2.8999999999999995, the sum 2.9 as floating point gives it,
\* the class 'nonmatch', and the two records are in two clusters.
C30_Witness ==
    /\ pc = "done"
    /\ DefaultThresholds
    /\ \E k \in DOMAIN pairs_df :
          LET ra == roster[pairs_df[k].idx_a]
              rb == roster[pairs_df[k].idx_b]
          IN  /\ NpisDiffer(ra, rb) /\ NeitherNan(ra, rb)
              /\ ~LicenseEquality(ra, rb)
              /\ NearSum(pairs_df[k].score, 29, 10)
              /\ FloatBelow(pairs_df[k].score, float_div(29, 10))
              /\ pairs_df[k].match_class = "nonmatch"
              /\ Len(clusters) = 2

====
